---- MODULE Spec2Model ----
(***************************************************************************)
(* Two-stage crypto signal scanner (CipherB detection, VWMA / EMA          *)
(* confirmation) and its SQLite pending-signal store.                      *)
(*                                                                         *)
(* The store is the table pending_signals of database/signal_manager.py.   *)
(* A row is modelled by the columns the analyzers read back: signal_id,    *)
(* symbol, direction, vwma_at_signal, created_at, expires_at, status.      *)
(* Timestamps are whole hours on a clock `now`; the ISO-8601 strings the   *)
(* code stores compare lexicographically in the order of the instants they *)
(* denote, so string comparison is modelled by integer comparison.         *)
(***************************************************************************)
EXTENDS Integers, Sequences, FiniteSets, TLC

VARIABLES
    store,              \* rows of the table pending_signals
    seq,                \* sqlite_sequence: the largest signal_id ever assigned
    now,                \* datetime.now(), in hours
    op,                 \* the call that ran last, with the inputs it was given
    ret,                \* what the last call returned
    pending_signals,    \* Stage 2: the list read from the store
    idx,                \* Stage 2: position in pending_signals (0: no loop running)
    execution_signals,  \* Stage 2: the confirmations collected so far
    pass,               \* run_enhanced_analysis: position, start time, coins left
    procs,              \* concurrent Stage-1 detections: position and locals
    wt,                 \* detect_cipherb_signals: the wt1/wt2 series given
    signals_df,         \* detect_cipherb_signals: the frame returned
    config,             \* the loaded configuration (thresholds, monitoring hours)
    ema_df,             \* detect_ema_crossover: the ema_fast/ema_slow frame given
    alerts,             \* the alert dispatches of the pass or call under way
    fetcher,            \* fetch_market_coins / fetch_ohlcv_with_fallback: progress
    ohlc                \* convert_to_heikin_ashi: the candles given

storeVars == <<store, seq, now>>
callVars == <<op, ret>>
loopVars == <<pending_signals, idx, execution_signals>>
vars == <<store, seq, now, op, ret, pending_signals, idx, execution_signals,
          pass, procs, wt, signals_df, config, ema_df,
          alerts, fetcher, ohlc>>

(***************************************************************************)
(* Bounds of the model.                                                    *)
(***************************************************************************)
MaxTime == 13
MaxId == 2
MaxBars == 3
MaxPuts == 3
MaxEmaBars == 5
MaxPages == 2
MaxCandles == 3

(***************************************************************************)
(* Program constants.                                                      *)
(***************************************************************************)
HorizonHours == 12
MaxMonitoringHours == 12
NoVwma == 0

Coins == {"btc", "eth"}
Directions == {"BUY", "SELL"}
Prices == {1, 2}

\* The clock takes the first instants and the instants past the horizon.
Times == {t \in 0..MaxTime : t <= 1 \/ t > HorizonHours}

None == [none |-> TRUE]

\* symbol = coin_data.get('symbol', '').upper()
Upper(c) == IF c = "btc" THEN "BTC" ELSE IF c = "eth" THEN "ETH" ELSE c

Symbols == {Upper(c) : c \in Coins}

Opposite(direction) == IF direction = "BUY" THEN "SELL" ELSE "BUY"

(***************************************************************************)
(* SignalManager: every method opens its own connection and commits, so    *)
(* each is one transaction on the table.                                   *)
(***************************************************************************)
Monitoring(st, symbol, direction) ==
    {r \in st : r.symbol = symbol /\ r.direction = direction /\ r.status = "MONITORING"}

MinId(rows) == CHOOSE r \in rows : \A q \in rows : r.signal_id <= q.signal_id

\* A plausible slip: INTEGER PRIMARY KEY without AUTOINCREMENT, where the
\* new id is one more than the largest id in the table.
StorePendingSignal_RowidReused(st, sq, symbol, direction, vwma_at_signal, t) ==
    LET largest == IF st = {} THEN 0
                   ELSE (CHOOSE r \in st : \A q \in st : q.signal_id <= r.signal_id).signal_id
        row == [signal_id |-> largest + 1, symbol |-> symbol, direction |-> direction,
                vwma_at_signal |-> vwma_at_signal, created_at |-> t,
                expires_at |-> t + HorizonHours, status |-> "MONITORING"]
    IN [store |-> st \cup {row}, seq |-> sq + 1, ret |-> largest + 1]

\* INSERT with AUTOINCREMENT: the new id is one more than the largest id
\* ever used; nothing is looked up or deleted.
StorePendingSignal(st, sq, symbol, direction, vwma_at_signal, t) ==
    LET row == [signal_id |-> sq + 1, symbol |-> symbol, direction |-> direction,
                vwma_at_signal |-> vwma_at_signal, created_at |-> t,
                expires_at |-> t + HorizonHours, status |-> "MONITORING"]
    IN [store |-> st \cup {row}, seq |-> sq + 1, ret |-> sq + 1]

\* SELECT ... WHERE symbol, direction, status = 'MONITORING'; fetchone().
\* The index scan yields rows in rowid order, so the first row is the oldest id.
GetPendingSignal(st, symbol, direction) ==
    IF Monitoring(st, symbol, direction) = {} THEN None
    ELSE MinId(Monitoring(st, symbol, direction))

RECURSIVE SortRows(_)
SortRows(rows) ==
    IF rows = {} THEN <<>>
    ELSE LET first == CHOOSE r \in rows : \A q \in rows :
                         \/ r.created_at < q.created_at
                         \/ (r.created_at = q.created_at /\ r.signal_id <= q.signal_id)
         IN <<first>> \o SortRows(rows \ {first})

\* A plausible slip: ORDER BY created_at DESC.
GetAllPendingSignals_NewestFirst(st) ==
    LET rows == SortRows({r \in st : r.status = "MONITORING"})
    IN [i \in 1..Len(rows) |-> rows[Len(rows) + 1 - i]]

\* SELECT ... WHERE status = 'MONITORING' ORDER BY created_at ASC
GetAllPendingSignals(st) == SortRows({r \in st : r.status = "MONITORING"})

CancelOppositeSignal(st, symbol, direction) ==
    LET existing == Monitoring(st, symbol, Opposite(direction))
    IN IF existing # {} THEN [store |-> st \ existing, ret |-> TRUE]
       ELSE [store |-> st, ret |-> FALSE]

\* A plausible slip: WHERE signal_id <= ?
DeleteSignal_UpToId(st, signal_id) ==
    LET rows == {r \in st : r.signal_id <= signal_id}
    IN [store |-> st \ rows, ret |-> Cardinality(rows) > 0]

\* A plausible slip: success is reported whether or not a row was deleted.
DeleteSignal_AlwaysTrue(st, signal_id) ==
    [store |-> {r \in st : r.signal_id # signal_id}, ret |-> TRUE]

DeleteSignal(st, signal_id) ==
    LET rows == {r \in st : r.signal_id = signal_id}
    IN [store |-> st \ rows, ret |-> Cardinality(rows) > 0]

\* A plausible slip: the cutoff is compared with the wrong column.
CleanupExpiredSignals_ByExpiresAt(st, t, hours) ==
    LET expired == {r \in st : r.expires_at < t - hours /\ r.status = "MONITORING"}
    IN [store |-> st \ expired, ret |-> Cardinality(expired)]

\* DELETE ... WHERE created_at < cutoff_time AND status = 'MONITORING'
CleanupExpiredSignals(st, t, hours) ==
    LET expired == {r \in st : r.created_at < t - hours /\ r.status = "MONITORING"}
    IN [store |-> st \ expired, ret |-> Cardinality(expired)]

(***************************************************************************)
(* Market inputs of the 15m analyzer.  A fetch yields no frame ("none"),   *)
(* raises inside the handler ("raise"), or yields a frame ("ok") whose     *)
(* last close is `close` and whose 21-bar VWMA evaluates to `vwma`         *)
(* (NoVwma: NaN or not positive).                                          *)
(***************************************************************************)
Frames ==
    {[fetch |-> "none", close |-> 1, vwma |-> NoVwma],
     [fetch |-> "raise", close |-> 1, vwma |-> NoVwma],
     [fetch |-> "ok", close |-> 1, vwma |-> NoVwma]}
    \cup {[fetch |-> "ok", close |-> c, vwma |-> v] : c \in Prices, v \in Prices}

\* What Stage 1 is given: the reference VWMA, when there is one, is the lowest price.
Stage1Frames == {df \in Frames : df.vwma \in {NoVwma, 1}}

\* calculate_vwma_21: None when the latest value is NaN or <= 0
CalculateVwma21(df) == IF df.vwma <= 0 THEN NoVwma ELSE df.vwma

\* Rows of the frame returned by detect_cipherb_signals (latest row last).
SignalRows ==
    {[buySignal |-> b, sellSignal |-> s] : b \in BOOLEAN, s \in BOOLEAN} \
        {[buySignal |-> TRUE, sellSignal |-> TRUE]}

NoSignalRow == [buySignal |-> FALSE, sellSignal |-> FALSE]

\* Frames of up to two rows in which at most one row carries a signal.
SignalFrames ==
    {<<>>} \cup {<<r>> : r \in SignalRows}
           \cup {<<q, r>> : q \in SignalRows, r \in {NoSignalRow}}
           \cup {<<q, r>> : q \in {NoSignalRow}, r \in SignalRows}

NoSignal == [has |-> FALSE, data |-> None]

\* A plausible slip: the new record is written without consulting the store.
Stage1Branch_Unchecked(st, sq, symbol, direction, current_vwma, current_price, t) ==
    LET stored == StorePendingSignal(st, sq, symbol, direction, current_vwma, t)
    IN [store |-> stored.store, seq |-> stored.seq,
        ret |-> [has |-> TRUE,
                 data |-> [signal_id |-> stored.ret, symbol |-> symbol,
                           direction |-> direction, vwma_target |-> current_vwma,
                           current_price |-> current_price]]]

\* The branch taken for a signal of `direction` on the latest row.  The
\* caller hands cancel_opposite_signal the direction it wants cancelled
\* (lines 201 and 232), and cancel_opposite_signal inverts its argument.
Stage1Branch(st, sq, symbol, direction, current_vwma, current_price, t) ==
    LET cancelled == CancelOppositeSignal(st, symbol, Opposite(direction))
        existing_signal == GetPendingSignal(cancelled.store, symbol, direction)
        stored == StorePendingSignal(cancelled.store, sq, symbol, direction, current_vwma, t)
    IN IF existing_signal = None
       THEN [store |-> stored.store, seq |-> stored.seq,
             ret |-> [has |-> TRUE,
                      data |-> [signal_id |-> stored.ret, symbol |-> symbol,
                                direction |-> direction, vwma_target |-> current_vwma,
                                current_price |-> current_price]]]
       ELSE [store |-> cancelled.store, seq |-> sq, ret |-> NoSignal]

\* A plausible slip: Stage 1 drops the symbol's records when it has no
\* data, as Stage 2 does.
DetectNewCipherbSignals_FailClosed(st, sq, coin, df, signals, t) ==
    LET symbol == Upper(coin)
        dropped == [store |-> {r \in st : r.symbol # symbol}, seq |-> sq, ret |-> NoSignal]
        unchanged == [store |-> st, seq |-> sq, ret |-> NoSignal]
        latest_signals == signals[Len(signals)]
        current_vwma == CalculateVwma21(df)
    IN IF df.fetch # "ok" THEN dropped
       ELSE IF signals = <<>> THEN dropped
       ELSE IF current_vwma = NoVwma THEN dropped
       ELSE IF latest_signals.buySignal
            THEN Stage1Branch(st, sq, symbol, "BUY", current_vwma, df.close, t)
       ELSE IF latest_signals.sellSignal
            THEN Stage1Branch(st, sq, symbol, "SELL", current_vwma, df.close, t)
       ELSE unchanged

DetectNewCipherbSignals(st, sq, coin, df, signals, t) ==
    LET symbol == Upper(coin)
        unchanged == [store |-> st, seq |-> sq, ret |-> NoSignal]
        latest_signals == signals[Len(signals)]
        current_vwma == CalculateVwma21(df)
    IN IF df.fetch # "ok" THEN unchanged
       ELSE IF signals = <<>> THEN unchanged
       ELSE IF current_vwma = NoVwma THEN unchanged
       ELSE IF latest_signals.buySignal
            THEN Stage1Branch(st, sq, symbol, "BUY", current_vwma, df.close, t)
       ELSE IF latest_signals.sellSignal
            THEN Stage1Branch(st, sq, symbol, "SELL", current_vwma, df.close, t)
       ELSE unchanged

(***************************************************************************)
(* check_vwma_crosses_for_pending_signals: one iteration of its loop per   *)
(* step, on the list read when the pass began.  `acc` carries the store    *)
(* and the execution_signals collected so far.                             *)
(***************************************************************************)
\* A plausible slip: a close equal to the VWMA counts as a cross.
CrossConfirmed_Inclusive(direction, current_close, current_vwma) ==
    \/ (direction = "BUY" /\ current_close >= current_vwma)
    \/ (direction = "SELL" /\ current_close <= current_vwma)

CrossConfirmed(direction, current_close, current_vwma) ==
    \/ (direction = "BUY" /\ current_close > current_vwma)
    \/ (direction = "SELL" /\ current_close < current_vwma)

ExecutionSignal(pending, df, t) ==
    [signal_id |-> pending.signal_id, symbol |-> pending.symbol,
     direction |-> pending.direction, entry_price |-> df.close,
     vwma_value |-> CalculateVwma21(df), signal_age |-> t - pending.created_at,
     created_at |-> pending.created_at]

\* A plausible slip: the confirmation is reported but the record is kept.
CheckOne_NoDelete(acc, pending, df, t) ==
    IF df.fetch = "none" \/ df.fetch = "raise" \/ CalculateVwma21(df) = NoVwma
    THEN [store |-> DeleteSignal(acc.store, pending.signal_id).store,
          execution_signals |-> acc.execution_signals]
    ELSE IF CrossConfirmed(pending.direction, df.close, CalculateVwma21(df))
    THEN [store |-> acc.store,
          execution_signals |-> Append(acc.execution_signals, ExecutionSignal(pending, df, t))]
    ELSE acc

\* A plausible slip: a record whose data is missing is skipped, not deleted.
CheckOne_KeepOnError(acc, pending, df, t) ==
    IF df.fetch = "none" \/ df.fetch = "raise" \/ CalculateVwma21(df) = NoVwma
    THEN acc
    ELSE IF CrossConfirmed(pending.direction, df.close, CalculateVwma21(df))
    THEN [store |-> DeleteSignal(acc.store, pending.signal_id).store,
          execution_signals |-> Append(acc.execution_signals, ExecutionSignal(pending, df, t))]
    ELSE acc

\* A plausible slip: the close is tested against the VWMA stored with the
\* record.
CheckOne_RecordedVwma(acc, pending, df, t) ==
    IF df.fetch = "none" \/ df.fetch = "raise" \/ CalculateVwma21(df) = NoVwma
    THEN [store |-> DeleteSignal(acc.store, pending.signal_id).store,
          execution_signals |-> acc.execution_signals]
    ELSE IF CrossConfirmed(pending.direction, df.close, pending.vwma_at_signal)
    THEN [store |-> DeleteSignal(acc.store, pending.signal_id).store,
          execution_signals |-> Append(acc.execution_signals, ExecutionSignal(pending, df, t))]
    ELSE acc

\* One iteration of the loop (lines 277-336): fetch failure, VWMA failure and
\* any exception delete the record; a confirmed cross appends the event and
\* deletes the record; otherwise nothing changes.
CheckOne(acc, pending, df, t) ==
    IF df.fetch = "none" \/ df.fetch = "raise" \/ CalculateVwma21(df) = NoVwma
    THEN [store |-> DeleteSignal(acc.store, pending.signal_id).store,
          execution_signals |-> acc.execution_signals]
    ELSE IF CrossConfirmed(pending.direction, df.close, CalculateVwma21(df))
    THEN [store |-> DeleteSignal(acc.store, pending.signal_id).store,
          execution_signals |-> Append(acc.execution_signals, ExecutionSignal(pending, df, t))]
    ELSE acc

Ids(rows) == {r.signal_id : r \in rows}

(***************************************************************************)
(* enhanced_analyzer_5m.py: the EMA-crossover confirmation pass.  What a   *)
(* 5m fetch yields is summarised by whether a frame came back, how many    *)
(* candles it holds, and the direction of the crossover its last three     *)
(* bars show.                                                              *)
(***************************************************************************)
FastEmaPeriod == 9
SlowEmaPeriod == 18

\* The methods class SignalManager defines.
SignalManagerMethods ==
    {"init_database", "store_pending_signal", "get_pending_signal",
     "get_all_pending_signals", "cancel_opposite_signal", "delete_signal",
     "cleanup_expired_signals"}

EmaFrames ==
    {[fetch |-> "none", len |-> 0, cross |-> "NONE"],
     [fetch |-> "empty", len |-> 0, cross |-> "NONE"],
     [fetch |-> "ok", len |-> SlowEmaPeriod - 1, cross |-> "NONE"]}
    \cup {[fetch |-> "ok", len |-> SlowEmaPeriod, cross |-> c] : c \in {"BUY", "SELL", "NONE"}}

Max(a, b) == IF a >= b THEN a ELSE b

\* calculate_emas adds the EMA columns only when there are enough candles;
\* detect_ema_crossover returns False when the columns are absent.
HasCrossover(f, signal_direction) ==
    /\ f.len >= Max(FastEmaPeriod, SlowEmaPeriod)
    /\ f.cross = signal_direction

\* analyze_pending_signal: a missing key raises KeyError, which is caught
\* (line 217) and yields None, as do a missing frame and a missing crossover.
AnalyzePendingSignal(signal_data, f) ==
    IF {"coin_symbol", "signal_direction"} \ DOMAIN signal_data # {} THEN None
    ELSE IF f.fetch = "none" \/ f.fetch = "empty" THEN None
    ELSE IF ~HasCrossover(f, signal_data.signal_direction) THEN None
    ELSE [symbol |-> signal_data.coin_symbol,
          signal_direction |-> signal_data.signal_direction]

RECURSIVE EmaLoop(_, _, _, _)
EmaLoop(acc, pending, i, f) ==
    IF i > Len(pending) THEN acc
    ELSE LET confirmation_data == AnalyzePendingSignal(pending[i], f)
         IN IF confirmation_data = None \/ "confirm_signal" \notin SignalManagerMethods
            THEN EmaLoop(acc, pending, i + 1, f)
            ELSE EmaLoop([store |-> {r \in acc.store : r.symbol # confirmation_data.symbol},
                          buy |-> IF confirmation_data.signal_direction = "BUY"
                                  THEN Append(acc.buy, confirmation_data) ELSE acc.buy,
                          sell |-> IF confirmation_data.signal_direction = "SELL"
                                   THEN Append(acc.sell, confirmation_data) ELSE acc.sell],
                         pending, i + 1, f)

\* process_pending_signals: the call of get_pending_signals raises
\* AttributeError, the outer handler (line 264) logs it, and both lists are
\* returned empty.
ProcessPendingSignals(st, f) ==
    IF "get_pending_signals" \notin SignalManagerMethods
    THEN [store |-> st, buy |-> <<>>, sell |-> <<>>]
    ELSE EmaLoop([store |-> st, buy |-> <<>>, sell |-> <<>>],
                 GetAllPendingSignals(st), 1, f)

(***************************************************************************)
(* indicators/cipherb_fixed.py: detect_cipherb_signals on a given wt1/wt2  *)
(* series.  A float is <<v>>, NaN is <<>>; every comparison with NaN is    *)
(* False, as in pandas.                                                    *)
(***************************************************************************)
OversoldThreshold == -60
OverboughtThreshold == 60

\* The configuration as the analyzers read it: config['cipherb'] and
\* config['signal_management']['max_monitoring_hours'].
DefaultConfig ==
    [oversold_threshold |-> OversoldThreshold,
     overbought_threshold |-> OverboughtThreshold,
     max_monitoring_hours |-> MaxMonitoringHours]

NaN == <<>>
Num(v) == <<v>>

WtValues ==
    {NaN} \cup {Num(v) : v \in {OversoldThreshold - 1, OversoldThreshold,
                                OverboughtThreshold, OverboughtThreshold + 1}}

WtRows == {[wt1 |-> a, wt2 |-> b] : a \in WtValues, b \in WtValues}

Le(a, b) == a # NaN /\ b # NaN /\ a[1] <= b[1]
Lt(a, b) == a # NaN /\ b # NaN /\ a[1] < b[1]
Ge(a, b) == a # NaN /\ b # NaN /\ a[1] >= b[1]
Gt(a, b) == a # NaN /\ b # NaN /\ a[1] > b[1]
Sub(a, b) == IF a = NaN \/ b = NaN THEN NaN ELSE Num(a[1] - b[1])

\* Series.shift(1): the first element becomes NaN / NA.
Shift(series) == [i \in 1..Len(series) |-> IF i = 1 THEN <<>> ELSE <<series[i - 1]>>]

Column(rows, name) == [i \in 1..Len(rows) |-> rows[i][name]]

\* A plausible slip: the bar without a predecessor is filled with 0.
ShiftFloat_FilledZero(col) == [i \in 1..Len(col) |-> IF i = 1 THEN Num(0) ELSE col[i - 1]]

\* shift(1) of a float column: NaN stays NaN
ShiftFloat(col) == [i \in 1..Len(col) |-> IF i = 1 THEN NaN ELSE col[i - 1]]

\* .fillna(False)
FillnaFalse(series) == [i \in 1..Len(series) |-> IF series[i] = <<>> THEN FALSE ELSE series[i][1]]

Invert(series) == [i \in 1..Len(series) |-> ~series[i]]
And(a, b) == [i \in 1..Len(a) |-> a[i] /\ b[i]]

\* A plausible slip: the bar before is not looked at.
CrossAny_CurrentBarOnly(wt1, wt2) ==
    [i \in 1..Len(wt1) |-> Gt(wt1[i], wt2[i]) \/ Lt(wt1[i], wt2[i])]

\* A plausible slip: the previous bar is compared strictly as well.
CrossAny_StrictBefore(wt1, wt2) ==
    LET prev1 == ShiftFloat(wt1)
        prev2 == ShiftFloat(wt2)
    IN [i \in 1..Len(wt1) |->
           \/ (Lt(prev1[i], prev2[i]) /\ Gt(wt1[i], wt2[i]))
           \/ (Gt(prev1[i], prev2[i]) /\ Lt(wt1[i], wt2[i]))]

CrossAny(wt1, wt2) ==
    LET prev1 == ShiftFloat(wt1)
        prev2 == ShiftFloat(wt2)
    IN [i \in 1..Len(wt1) |->
           \/ (Le(prev1[i], prev2[i]) /\ Gt(wt1[i], wt2[i]))
           \/ (Ge(prev1[i], prev2[i]) /\ Lt(wt1[i], wt2[i]))]

\* A plausible slip: the oversold gate looks at wt2 only.
BuyCondition_Wt2Only(wt1, wt2, oversold_threshold) ==
    LET cross_any == CrossAny(wt1, wt2)
    IN [i \in 1..Len(wt1) |->
           /\ cross_any[i]
           /\ (cross_any[i] /\ Le(Sub(wt2[i], wt1[i]), Num(0)))
           /\ Le(wt2[i], Num(oversold_threshold))]

BuyCondition(wt1, wt2, oversold_threshold) ==
    LET cross_any == CrossAny(wt1, wt2)
    IN [i \in 1..Len(wt1) |->
           /\ cross_any[i]
           /\ (cross_any[i] /\ Le(Sub(wt2[i], wt1[i]), Num(0)))
           /\ (Le(wt1[i], Num(oversold_threshold)) /\ Le(wt2[i], Num(oversold_threshold)))]

\* A plausible slip: the SELL condition pasted from the BUY condition.
SellCondition_CopiedFromBuy(wt1, wt2, overbought_threshold) ==
    BuyCondition(wt1, wt2, overbought_threshold)

SellCondition(wt1, wt2, overbought_threshold) ==
    LET cross_any == CrossAny(wt1, wt2)
    IN [i \in 1..Len(wt1) |->
           /\ cross_any[i]
           /\ (cross_any[i] /\ Ge(Sub(wt2[i], wt1[i]), Num(0)))
           /\ (Ge(wt2[i], Num(overbought_threshold)) /\ Ge(wt1[i], Num(overbought_threshold)))]

\* A plausible slip: the shifted condition is not inverted.
FirstOccurrence_NotInverted(condition) == And(condition, FillnaFalse(Shift(condition)))

\* condition & (~condition.shift(1).fillna(False))
FirstOccurrence(condition) == And(condition, Invert(FillnaFalse(Shift(condition))))

DetectCipherbSignals(rows, cfg) ==
    IF rows = <<>> THEN <<>>
    ELSE LET wt1 == Column(rows, "wt1")
             wt2 == Column(rows, "wt2")
             buySignal == FirstOccurrence(BuyCondition(wt1, wt2, cfg.oversold_threshold))
             sellSignal == FirstOccurrence(SellCondition(wt1, wt2, cfg.overbought_threshold))
         IN [i \in 1..Len(rows) |->
                [wt1 |-> wt1[i], wt2 |-> wt2[i],
                 buySignal |-> buySignal[i], sellSignal |-> sellSignal[i]]]

(***************************************************************************)
(* Steps shared by the specifications.  Each leaves pass, procs, wt and    *)
(* signals_df to the specification that uses it.                           *)
(***************************************************************************)
Idle == idx = 0

NoLoop ==
    /\ pending_signals = <<>>
    /\ idx = 0
    /\ execution_signals = <<>>

InitStore ==
    /\ store = {}
    /\ seq = 0
    /\ now = 0
    /\ op = [name |-> "init"]
    /\ ret = None
    /\ NoLoop

IdlePass == [pc |-> "idle", started |-> 0, coins |-> <<>>]
IdleProc == [pc |-> "idle", symbol |-> "", direction |-> "", existing |-> FALSE]
Procs == {1, 2}

DoTick ==
    /\ Idle
    /\ \E t \in Times : t > now /\ now' = t
    /\ op' = [name |-> "tick"]
    /\ ret' = None
    /\ UNCHANGED <<store, seq, pending_signals, idx, execution_signals>>

\* detect_new_cipherb_signals(coin_data)
DoStage1(coin) ==
    /\ Idle
    /\ seq < MaxId
    /\ \E df \in Stage1Frames, signals \in SignalFrames :
          LET r == DetectNewCipherbSignals(store, seq, coin, df, signals, now)
          IN /\ store' = r.store
             /\ seq' = r.seq
             /\ ret' = r.ret
             /\ op' = [name |-> "detect_new_cipherb_signals", symbol |-> Upper(coin),
                       df |-> df, signals |-> signals]
    /\ UNCHANGED <<now, pending_signals, idx, execution_signals>>

\* check_vwma_crosses_for_pending_signals, lines 272-273
DoStage2Begin ==
    /\ Idle
    /\ pending_signals' = GetAllPendingSignals(store)
    /\ idx' = 1
    /\ execution_signals' = <<>>
    /\ op' = [name |-> "get_all_pending_signals"]
    /\ ret' = None
    /\ UNCHANGED <<store, seq, now>>

\* one iteration of the loop, lines 277-336
DoStage2Step ==
    /\ idx >= 1
    /\ idx <= Len(pending_signals)
    /\ \E df \in Frames :
          LET r == CheckOne([store |-> store, execution_signals |-> execution_signals],
                            pending_signals[idx], df, now)
          IN /\ store' = r.store
             /\ execution_signals' = r.execution_signals
             /\ op' = [name |-> "check_vwma_cross",
                       pending |-> pending_signals[idx], df |-> df]
    /\ idx' = idx + 1
    /\ ret' = None
    /\ UNCHANGED <<seq, now, pending_signals>>

\* return execution_signals, line 338
DoStage2Return ==
    /\ idx >= 1
    /\ idx > Len(pending_signals)
    /\ ret' = execution_signals
    /\ op' = [name |-> "check_vwma_crosses_for_pending_signals",
              checked |-> Len(pending_signals)]
    /\ pending_signals' = <<>>
    /\ idx' = 0
    /\ execution_signals' = <<>>
    /\ UNCHANGED <<store, seq, now>>

\* cleanup_expired_signals(hours=max_monitoring_hours)
DoSweep ==
    /\ Idle
    /\ LET r == CleanupExpiredSignals(store, now, config.max_monitoring_hours)
       IN /\ store' = r.store
          /\ ret' = r.ret
    /\ op' = [name |-> "cleanup_expired_signals"]
    /\ UNCHANGED <<seq, now, pending_signals, idx, execution_signals>>

\* process_pending_signals of the 5m analyzer; every symbol's 5m fetch yields f
DoEmaPass ==
    /\ Idle
    /\ \E f \in EmaFrames :
          LET r == ProcessPendingSignals(store, f)
          IN /\ store' = r.store
             /\ ret' = [buy |-> r.buy, sell |-> r.sell]
             /\ op' = [name |-> "process_pending_signals", ohlc |-> f]
    /\ UNCHANGED <<seq, now, pending_signals, idx, execution_signals>>

(***************************************************************************)
(* Spec: Stage-1 detections, Stage-2 checks (VWMA and EMA) and expiry      *)
(* sweeps run one after another, each to completion, in any order.         *)
(***************************************************************************)
otherVars == <<pass, procs, wt, signals_df, config, ema_df,
          alerts, fetcher, ohlc>>

InitOther ==
    /\ pass = IdlePass
    /\ procs = [p \in Procs |-> IdleProc]
    /\ wt = <<>>
    /\ signals_df = <<>>
    /\ config = DefaultConfig
    /\ ema_df = <<>>
    /\ alerts = {}
    /\ fetcher = <<>>
    /\ ohlc = <<>>

Init == InitStore /\ InitOther

Tick == DoTick /\ UNCHANGED otherVars
Stage1Detect == (\E coin \in Coins : DoStage1(coin)) /\ UNCHANGED otherVars
Stage2Begin == DoStage2Begin /\ UNCHANGED otherVars
Stage2Step == DoStage2Step /\ UNCHANGED otherVars
Stage2Return == DoStage2Return /\ UNCHANGED otherVars
ExpirySweep == DoSweep /\ UNCHANGED otherVars
EmaPass == DoEmaPass /\ UNCHANGED otherVars

Next ==
    \/ Tick
    \/ Stage1Detect
    \/ Stage2Begin
    \/ Stage2Step
    \/ Stage2Return
    \/ ExpirySweep
    \/ EmaPass

Spec == Init /\ [][Next]_vars

(***************************************************************************)
(* C1: in Spec no symbol has an active BUY record and an active SELL       *)
(* record at the same time.                                                *)
(***************************************************************************)
C1_DirectionsExclusive ==
    \A symbol \in Symbols :
        Monitoring(store, symbol, "BUY") = {} \/ Monitoring(store, symbol, "SELL") = {}

DataAvailable(df) == df.fetch = "ok" /\ df.vwma > 0

TestSucceeds(p, df) ==
    /\ DataAvailable(df)
    /\ \/ (p.direction = "BUY" /\ df.close > df.vwma)
       \/ (p.direction = "SELL" /\ df.close < df.vwma)

EmaConfirmed(r, f) ==
    f.fetch = "ok" /\ f.len >= SlowEmaPeriod /\ f.cross = r.direction

C7_EmaConfirmedDeletedAndReported ==
    [][op'.name = "process_pending_signals" =>
        \A r \in store :
            EmaConfirmed(r, op'.ohlc) =>
                /\ r \notin store'
                /\ IF r.direction = "BUY"
                   THEN \E i \in 1..Len(ret'.buy) : ret'.buy[i].symbol = r.symbol
                   ELSE \E i \in 1..Len(ret'.sell) : ret'.sell[i].symbol = r.symbol]_vars

(***************************************************************************)
(* C8: the EMA-crossover pass deletes a record whose 5m fetch returns      *)
(* None or empty, or whose candles are fewer than the slow period.         *)
(***************************************************************************)
EmaUnavailable(f) == f.fetch = "none" \/ f.fetch = "empty" \/ f.len < SlowEmaPeriod

C8_EmaFailClosed ==
    [][(op'.name = "process_pending_signals" /\ EmaUnavailable(op'.ohlc)) =>
        store' = {}]_vars


(***************************************************************************)
(* SpecPass: run_enhanced_analysis, one pass after another.  A pass loads  *)
(* its coin list, returns at once when the list is missing or empty, and   *)
(* otherwise runs Stage 1 over the coins, Stage 2 over the pending         *)
(* records and the expiry sweep.  The clock may advance between any two    *)
(* steps.                                                                  *)
(***************************************************************************)
\* What load_high_risk_market_data can return (a missing file and an empty
\* list are both falsy).
CoinLists == {<<>>, <<"btc">>, <<"btc", "eth">>}

\* lines 351-353
PassStart ==
    /\ pass.pc = "idle"
    /\ Idle
    /\ \E coins \in CoinLists :
          IF coins = <<>>
          THEN /\ pass' = IdlePass
               /\ op' = [name |-> "run_enhanced_analysis", started |-> now,
                         swept |-> FALSE, expired_count |-> 0]
          ELSE /\ pass' = [pc |-> "stage1", started |-> now, coins |-> coins]
               /\ op' = [name |-> "load_high_risk_market_data"]
    /\ ret' = None
    /\ UNCHANGED <<store, seq, now, pending_signals, idx, execution_signals>>

\* detect_new_cipherb_signals finding no frame of signals for the coin
DoStage1Quiet(coin) ==
    /\ Idle
    /\ seq >= MaxId
    /\ \E df \in Stage1Frames :
          LET r == DetectNewCipherbSignals(store, seq, coin, df, <<>>, now)
          IN /\ store' = r.store
             /\ seq' = r.seq
             /\ ret' = r.ret
             /\ op' = [name |-> "detect_new_cipherb_signals", symbol |-> Upper(coin),
                       df |-> df, signals |-> <<>>]
    /\ UNCHANGED <<now, pending_signals, idx, execution_signals>>

\* lines 365-383: the next coin of the list
PassStage1 ==
    /\ pass.pc = "stage1"
    /\ pass.coins # <<>>
    /\ DoStage1(Head(pass.coins)) \/ DoStage1Quiet(Head(pass.coins))
    /\ pass' = [pass EXCEPT !.coins = Tail(pass.coins)]

\* line 395, entering check_vwma_crosses_for_pending_signals
PassStage2Begin ==
    /\ pass.pc = "stage1"
    /\ pass.coins = <<>>
    /\ DoStage2Begin
    /\ pass' = [pass EXCEPT !.pc = "stage2"]

PassStage2Step ==
    /\ pass.pc = "stage2"
    /\ DoStage2Step
    /\ UNCHANGED pass

PassStage2Return ==
    /\ pass.pc = "stage2"
    /\ DoStage2Return
    /\ pass' = [pass EXCEPT !.pc = "cleanup"]

\* lines 405-420: the sweep, then the pass returns
PassCleanup ==
    /\ pass.pc = "cleanup"
    /\ LET r == CleanupExpiredSignals(store, now, config.max_monitoring_hours)
       IN /\ store' = r.store
          /\ op' = [name |-> "run_enhanced_analysis", started |-> pass.started,
                    swept |-> TRUE, expired_count |-> r.ret]
    /\ ret' = None
    /\ pass' = IdlePass
    /\ UNCHANGED <<seq, now, pending_signals, idx, execution_signals>>

PassTick == DoTick /\ UNCHANGED pass

passOther == <<procs, wt, signals_df, config, ema_df,
          alerts, fetcher, ohlc>>

NextPass ==
    \/ PassStart /\ UNCHANGED passOther
    \/ PassStage1 /\ UNCHANGED passOther
    \/ PassStage2Begin /\ UNCHANGED passOther
    \/ PassStage2Step /\ UNCHANGED passOther
    \/ PassStage2Return /\ UNCHANGED passOther
    \/ PassCleanup /\ UNCHANGED passOther
    \/ PassTick /\ UNCHANGED passOther

SpecPass == Init /\ [][NextPass]_vars

(***************************************************************************)
(* C9: in SpecPass, when a pass of run_enhanced_analysis has returned, the *)
(* store holds no record created more than the horizon before that pass    *)
(* started: a record created at t is gone at the end of the first pass     *)
(* that starts after t + horizon.                                          *)
(***************************************************************************)
C9_RemovedAfterHorizon ==
    op.name = "run_enhanced_analysis" =>
        \A r \in store : ~(r.created_at + MaxMonitoringHours < op.started)


(***************************************************************************)
(* SpecConc: passes running at the same time.  Each process runs the       *)
(* Stage-1 branch of detect_new_cipherb_signals as the three store calls   *)
(* it makes (lines 201-215 and 232-246); each call is one transaction, and *)
(* the calls of different processes, the deletions of a Stage-2 pass and   *)
(* the sweep interleave freely.                                            *)
(***************************************************************************)
Running == {p \in Procs : procs[p].pc # "idle"}

\* cancel_opposite_signal(symbol, 'SELL') for a BUY signal, and vice versa
ConcCancel(p) ==
    /\ procs[p].pc = "idle"
    /\ seq + Cardinality(Running) < MaxId
    /\ \E symbol \in Symbols, direction \in Directions :
          /\ store' = CancelOppositeSignal(store, symbol, Opposite(direction)).store
          /\ procs' = [procs EXCEPT ![p] = [pc |-> "check", symbol |-> symbol,
                                            direction |-> direction,
                                            existing |-> FALSE]]
          /\ op' = [name |-> "cancel_opposite_signal", proc |-> p]
    /\ ret' = None
    /\ UNCHANGED <<seq, now>>

\* existing_signal = get_pending_signal(symbol, direction)
ConcGet(p) ==
    /\ procs[p].pc = "check"
    /\ procs' = [procs EXCEPT ![p].pc = "insert",
                              ![p].existing =
                                  (GetPendingSignal(store, procs[p].symbol,
                                                    procs[p].direction) # None)]
    /\ op' = [name |-> "get_pending_signal", proc |-> p]
    /\ ret' = GetPendingSignal(store, procs[p].symbol, procs[p].direction)
    /\ UNCHANGED <<store, seq, now>>

\* if not existing_signal: store_pending_signal(...)
ConcStore(p) ==
    /\ procs[p].pc = "insert"
    /\ LET stored == StorePendingSignal(store, seq, procs[p].symbol,
                                        procs[p].direction, 1, now)
       IN IF procs[p].existing
          THEN /\ UNCHANGED <<store, seq>>
               /\ ret' = None
          ELSE /\ store' = stored.store
               /\ seq' = stored.seq
               /\ ret' = stored.ret
    /\ procs' = [procs EXCEPT ![p] = IdleProc]
    /\ op' = [name |-> "store_pending_signal", proc |-> p]
    /\ UNCHANGED now

\* delete_signal(signal_id) issued by a Stage-2 pass holding an earlier read
ConcDelete ==
    /\ \E signal_id \in 1..MaxId :
          /\ signal_id <= seq
          /\ store' = DeleteSignal(store, signal_id).store
          /\ ret' = DeleteSignal(store, signal_id).ret
    /\ op' = [name |-> "delete_signal"]
    /\ UNCHANGED <<seq, now, procs>>

ConcSweep ==
    /\ store' = CleanupExpiredSignals(store, now, MaxMonitoringHours).store
    /\ ret' = CleanupExpiredSignals(store, now, MaxMonitoringHours).ret
    /\ op' = [name |-> "cleanup_expired_signals"]
    /\ UNCHANGED <<seq, now, procs>>

ConcTick ==
    /\ \E t \in Times : t > now /\ now' = t
    /\ op' = [name |-> "tick"]
    /\ ret' = None
    /\ UNCHANGED <<store, seq, procs>>

concOther == <<pending_signals, idx, execution_signals, pass, wt, signals_df,
               config, ema_df,
          alerts, fetcher, ohlc>>

NextConc ==
    \/ (\E p \in Procs : ConcCancel(p)) /\ UNCHANGED concOther
    \/ (\E p \in Procs : ConcGet(p)) /\ UNCHANGED concOther
    \/ (\E p \in Procs : ConcStore(p)) /\ UNCHANGED concOther
    \/ ConcDelete /\ UNCHANGED concOther
    \/ ConcSweep /\ UNCHANGED concOther
    \/ ConcTick /\ UNCHANGED concOther

SpecConc == Init /\ [][NextConc]_vars

(***************************************************************************)
(* C3: in SpecConc, whatever the interleaving of the store calls, no       *)
(* symbol has an active BUY and an active SELL record at once and no       *)
(* (symbol, direction) pair has two active records.                        *)
(***************************************************************************)
C3_Stage1Atomic ==
    \A symbol \in Symbols :
        /\ \/ Monitoring(store, symbol, "BUY") = {}
           \/ Monitoring(store, symbol, "SELL") = {}
        /\ \A direction \in Directions :
              \A r, q \in Monitoring(store, symbol, direction) : r = q

(***************************************************************************)
(* SpecApi: the methods of SignalManager called one at a time, in any      *)
(* order and with any arguments.                                           *)
(***************************************************************************)
\* At most MaxPuts inserts; the reference VWMA stored is the lowest price.
ApiPut ==
    /\ seq < MaxPuts
    /\ \E symbol \in Symbols, direction \in Directions, vwma \in {1} :
          LET stored == StorePendingSignal(store, seq, symbol, direction, vwma, now)
          IN /\ store' = stored.store
             /\ seq' = stored.seq
             /\ ret' = stored.ret
             /\ op' = [name |-> "store_pending_signal", symbol |-> symbol,
                       direction |-> direction]
    /\ UNCHANGED now

ApiGet ==
    /\ \E symbol \in Symbols, direction \in Directions :
          /\ ret' = GetPendingSignal(store, symbol, direction)
          /\ op' = [name |-> "get_pending_signal", symbol |-> symbol,
                    direction |-> direction]
    /\ UNCHANGED <<store, seq, now>>

ApiGetAll ==
    /\ ret' = GetAllPendingSignals(store)
    /\ op' = [name |-> "get_all_pending_signals", symbol |-> "", direction |-> ""]
    /\ UNCHANGED <<store, seq, now>>

ApiCancel ==
    /\ \E symbol \in Symbols, direction \in Directions :
          /\ store' = CancelOppositeSignal(store, symbol, direction).store
          /\ ret' = CancelOppositeSignal(store, symbol, direction).ret
          /\ op' = [name |-> "cancel_opposite_signal", symbol |-> symbol,
                    direction |-> direction]
    /\ UNCHANGED <<seq, now>>

ApiDelete ==
    /\ \E signal_id \in 1..(MaxPuts + 1) :
          /\ store' = DeleteSignal(store, signal_id).store
          /\ ret' = DeleteSignal(store, signal_id).ret
          /\ op' = [name |-> "delete_signal", symbol |-> "", direction |-> "",
                    signal_id |-> signal_id]
    /\ UNCHANGED <<seq, now>>

\* The hours a caller may pass: the default and one hour more.
SweepHours == {MaxMonitoringHours, MaxMonitoringHours + 1}

ApiSweep ==
    /\ \E hours \in SweepHours :
          /\ store' = CleanupExpiredSignals(store, now, hours).store
          /\ ret' = CleanupExpiredSignals(store, now, hours).ret
          /\ op' = [name |-> "cleanup_expired_signals", symbol |-> "", direction |-> "",
                    hours |-> hours]
    /\ UNCHANGED <<seq, now>>

ApiTick ==
    /\ \E t \in Times : t > now /\ now' = t
    /\ op' = [name |-> "tick", symbol |-> "", direction |-> ""]
    /\ ret' = None
    /\ UNCHANGED <<store, seq>>

apiOther == <<pending_signals, idx, execution_signals, pass, procs, wt, signals_df,
              config, ema_df,
          alerts, fetcher, ohlc>>

NextApi ==
    \/ ApiPut /\ UNCHANGED apiOther
    \/ ApiGet /\ UNCHANGED apiOther
    \/ ApiGetAll /\ UNCHANGED apiOther
    \/ ApiCancel /\ UNCHANGED apiOther
    \/ ApiDelete /\ UNCHANGED apiOther
    \/ ApiSweep /\ UNCHANGED apiOther
    \/ ApiTick /\ UNCHANGED apiOther

SpecApi == Init /\ [][NextApi]_vars

(***************************************************************************)
(* C4: in SpecApi, when store_pending_signal(X, d) on an empty table is    *)
(* followed at once by store_pending_signal(X, opposite of d), then        *)
(* get_pending_signal(X, d) finds nothing and get_pending_signal(X,        *)
(* opposite of d) finds the record just inserted.                          *)
(***************************************************************************)
C4_PutEvictsOpposite ==
    [][(/\ op.name = "store_pending_signal"
        /\ Cardinality(store) = 1
        /\ op'.name = "store_pending_signal"
        /\ op'.symbol = op.symbol
        /\ op'.direction = Opposite(op.direction))
       => (/\ GetPendingSignal(store', op.symbol, op.direction) = None
           /\ GetPendingSignal(store', op'.symbol, op'.direction) # None
           /\ GetPendingSignal(store', op'.symbol, op'.direction).signal_id = ret')]_vars

(***************************************************************************)
(* SpecSig: detect_cipherb_signals applied to a given wt1/wt2 series.      *)
(***************************************************************************)
\* The series wavetrend can hand over: up to MaxBars bars.
WtSeries == UNION {[1..n -> WtRows] : n \in 0..MaxBars}

BoolSeries == UNION {[1..n -> BOOLEAN] : n \in 0..MaxBars}

InitSig ==
    /\ InitStore
    /\ pass = IdlePass
    /\ procs = [p \in Procs |-> IdleProc]
    /\ wt \in WtSeries
    /\ signals_df = <<>>
    /\ config = DefaultConfig
    /\ ema_df = <<>>
    /\ alerts = {}
    /\ fetcher = <<>>
    /\ ohlc = <<>>

Detect ==
    /\ signals_df' = DetectCipherbSignals(wt, config)
    /\ op' = [name |-> "detect_cipherb_signals"]
    /\ ret' = None
    /\ UNCHANGED <<store, seq, now, pending_signals, idx, execution_signals,
                   pass, procs, wt, config, ema_df,
          alerts, fetcher, ohlc>>

NextSig == Detect

SpecSig == InitSig /\ [][NextSig]_vars

\* The edge trigger of lines 98-99 on every condition series of up to
\* MaxBars bars: it fires on a bar exactly when the condition holds there
\* and did not hold on the bar before.
EdgeTriggerOnConditions ==
    \A condition \in BoolSeries :
        \A i \in 1..Len(condition) :
            FirstOccurrence(condition)[i] = (condition[i] /\ (i = 1 \/ ~condition[i - 1]))

(***************************************************************************)
(* C10: in SpecSig, in the frame detect_cipherb_signals returns for a      *)
(* wt1/wt2 series, buySignal is true at bar i exactly when the BUY         *)
(* condition holds at bar i and did not hold at bar i-1 (the first bar has *)
(* no preceding bar), and likewise sellSignal with the SELL condition; and *)
(* the edge trigger applied to any condition series fires only on the      *)
(* first bar of each run of true bars.                                     *)
(***************************************************************************)
C10_EdgeTrigger ==
    /\ op.name = "detect_cipherb_signals" =>
          LET buy == BuyCondition(Column(wt, "wt1"), Column(wt, "wt2"),
                                  config.oversold_threshold)
              sell == SellCondition(Column(wt, "wt1"), Column(wt, "wt2"),
                                    config.overbought_threshold)
          IN /\ Len(signals_df) = Len(wt)
             /\ \A i \in 1..Len(wt) :
                   /\ signals_df[i].buySignal = (buy[i] /\ (i = 1 \/ ~buy[i - 1]))
                   /\ signals_df[i].sellSignal = (sell[i] /\ (i = 1 \/ ~sell[i - 1]))
    /\ EdgeTriggerOnConditions

\* A series on which a BUY and a SELL signal were both raised.
C10_Witness ==
    /\ op.name = "detect_cipherb_signals"
    /\ \E i \in 1..Len(signals_df) : signals_df[i].buySignal
    /\ \E i \in 1..Len(signals_df) : signals_df[i].sellSignal


(***************************************************************************)
(* SpecCfg: detect_cipherb_signals under any configuration whose oversold  *)
(* threshold is below its overbought threshold, on series of defined       *)
(* wt1/wt2 values.                                                         *)
(***************************************************************************)
ThresholdValues == {OversoldThreshold - 1, OversoldThreshold, 0, OverboughtThreshold}

ThresholdConfigs ==
    {cfg \in [oversold_threshold : ThresholdValues,
              overbought_threshold : ThresholdValues,
              max_monitoring_hours : {MaxMonitoringHours}] :
        cfg.oversold_threshold < cfg.overbought_threshold}

DefinedWtSeries ==
    UNION {[1..n -> {r \in WtRows : r.wt1 # NaN /\ r.wt2 # NaN}] : n \in 0..MaxBars}

InitCfg ==
    /\ InitStore
    /\ pass = IdlePass
    /\ procs = [p \in Procs |-> IdleProc]
    /\ wt \in DefinedWtSeries
    /\ signals_df = <<>>
    /\ config \in ThresholdConfigs
    /\ ema_df = <<>>
    /\ alerts = {}
    /\ fetcher = <<>>
    /\ ohlc = <<>>

NextCfg == Detect

SpecCfg == InitCfg /\ [][NextCfg]_vars

(***************************************************************************)
(* C11: in SpecCfg, whatever the configuration with oversold_threshold <   *)
(* overbought_threshold and whatever the wt1/wt2 series, no bar of the     *)
(* frame detect_cipherb_signals returns has buySignal and sellSignal both  *)
(* true.                                                                   *)
(***************************************************************************)
C11_SignalsExclusive ==
    op.name = "detect_cipherb_signals" =>
        \A i \in 1..Len(signals_df) :
            ~(signals_df[i].buySignal /\ signals_df[i].sellSignal)

\* Under thresholds other than the defaults, one series raised a BUY on one
\* bar and a SELL on another.
C11_Witness ==
    /\ op.name = "detect_cipherb_signals"
    /\ config # DefaultConfig
    /\ \E i, j \in 1..Len(signals_df) :
          /\ i # j
          /\ signals_df[i].buySignal
          /\ signals_df[j].sellSignal


\* The two lines met between bar i-1 and bar i of the series given: they
\* were level or in one order on bar i-1 and are strictly in the other
\* order on bar i.  Stated on the numbers of a series of defined values.
CrossedUpAt(i) ==
    /\ i > 1
    /\ wt[i - 1].wt1[1] <= wt[i - 1].wt2[1]
    /\ wt[i].wt1[1] > wt[i].wt2[1]

CrossedDownAt(i) ==
    /\ i > 1
    /\ wt[i - 1].wt1[1] >= wt[i - 1].wt2[1]
    /\ wt[i].wt1[1] < wt[i].wt2[1]

(***************************************************************************)
(* C12: in SpecCfg, a bar with buySignal has a cross on that bar, has      *)
(* wt2 - wt1 <= 0 and has both wt1 and wt2 at or below the oversold        *)
(* threshold; a bar with sellSignal has a cross on that bar, has           *)
(* wt2 - wt1 >= 0 and has both wt1 and wt2 at or above the overbought      *)
(* threshold.  So a bar with only one line beyond the threshold never      *)
(* fires.                                                                  *)
(***************************************************************************)
C12_SignalImpliesGatedCross ==
    op.name = "detect_cipherb_signals" =>
        \A i \in 1..Len(signals_df) :
            /\ signals_df[i].buySignal =>
                  /\ CrossedUpAt(i) \/ CrossedDownAt(i)
                  /\ wt[i].wt2[1] - wt[i].wt1[1] <= 0
                  /\ wt[i].wt1[1] <= config.oversold_threshold
                  /\ wt[i].wt2[1] <= config.oversold_threshold
            /\ signals_df[i].sellSignal =>
                  /\ CrossedUpAt(i) \/ CrossedDownAt(i)
                  /\ wt[i].wt2[1] - wt[i].wt1[1] >= 0
                  /\ wt[i].wt1[1] >= config.overbought_threshold
                  /\ wt[i].wt2[1] >= config.overbought_threshold

\* One series with a bar that fired a SELL and a bar that crossed upwards
\* with only wt2 at or below the oversold threshold, which did not fire.
C12_Witness ==
    /\ op.name = "detect_cipherb_signals"
    /\ \E i, j \in 1..Len(signals_df) :
          /\ signals_df[i].sellSignal
          /\ CrossedUpAt(j)
          /\ wt[j].wt2[1] <= config.oversold_threshold
          /\ wt[j].wt1[1] > config.oversold_threshold
          /\ ~signals_df[j].buySignal
          /\ ~signals_df[j].sellSignal


\* Bars i-1 and i of the series given both carry defined wt1 and wt2.
DefinedAt(i) ==
    /\ i > 1
    /\ wt[i].wt1 # NaN /\ wt[i].wt2 # NaN
    /\ wt[i - 1].wt1 # NaN /\ wt[i - 1].wt2 # NaN

\* sign(wt1 - wt2) on bar i
SignAt(i) ==
    IF wt[i].wt1[1] > wt[i].wt2[1] THEN 1
    ELSE IF wt[i].wt1[1] < wt[i].wt2[1] THEN -1 ELSE 0

(***************************************************************************)
(* C13 as stated: in SpecSig, a cross is computed on bar i whenever the    *)
(* sign of wt1 - wt2 differs between bar i-1 and bar i, equality on either *)
(* bar included.                                                           *)
(***************************************************************************)
C13_CrossInclusiveBothSides ==
    op.name = "detect_cipherb_signals" =>
        \A i \in 1..Len(wt) :
            (DefinedAt(i) /\ SignAt(i - 1) # SignAt(i)) =>
                CrossAny(Column(wt, "wt1"), Column(wt, "wt2"))[i]

(***************************************************************************)
(* C13 amended: in SpecSig, a cross is computed on bar i exactly when wt1  *)
(* and wt2 are strictly apart on bar i and were level or in the other      *)
(* order on bar i-1; with wt1 = wt2 on bar i no cross is computed.         *)
(***************************************************************************)
C13_CrossInclusiveBefore ==
    op.name = "detect_cipherb_signals" =>
        \A i \in 1..Len(wt) :
            DefinedAt(i) =>
                (CrossAny(Column(wt, "wt1"), Column(wt, "wt2"))[i]
                    <=> (SignAt(i) # 0 /\ SignAt(i - 1) # SignAt(i)))

\* Level on bar 1, apart on bar 2 (a cross), level again on bar 3 (none).
C13_Witness ==
    /\ op.name = "detect_cipherb_signals"
    /\ Len(wt) >= 3
    /\ DefinedAt(2) /\ DefinedAt(3)
    /\ SignAt(1) = 0 /\ SignAt(2) # 0 /\ SignAt(3) = 0
    /\ CrossAny(Column(wt, "wt1"), Column(wt, "wt2"))[2]
    /\ ~CrossAny(Column(wt, "wt1"), Column(wt, "wt2"))[3]


\* Bar i of the series given has an undefined value on it or before it,
\* or has no bar before it.
UndefinedAt(i) ==
    \/ i = 1
    \/ wt[i].wt1 = NaN \/ wt[i].wt2 = NaN
    \/ wt[i - 1].wt1 = NaN \/ wt[i - 1].wt2 = NaN

(***************************************************************************)
(* C14: in SpecSig, detect_cipherb_signals returns one row for every bar   *)
(* it is given, and on every bar where wt1 or wt2 is undefined, or was     *)
(* undefined on the bar before, or which is the first bar, buySignal and   *)
(* sellSignal are both false.                                              *)
(***************************************************************************)
C14_UndefinedNeverFires ==
    op.name = "detect_cipherb_signals" =>
        /\ Len(signals_df) = Len(wt)
        /\ \A i \in 1..Len(wt) :
              UndefinedAt(i) =>
                  (~signals_df[i].buySignal /\ ~signals_df[i].sellSignal)

\* A series whose first bar sits in the oversold gate with wt1 above wt2,
\* and whose last bar follows an undefined wt2 and sits in the overbought
\* gate with wt1 below wt2: neither bar fired.
C14_Witness ==
    /\ op.name = "detect_cipherb_signals"
    /\ Len(wt) >= 3
    /\ Len(signals_df) = Len(wt)
    /\ Gt(wt[1].wt1, wt[1].wt2)
    /\ Le(wt[1].wt1, Num(config.oversold_threshold))
    /\ wt[Len(wt) - 1].wt2 = NaN
    /\ Lt(wt[Len(wt)].wt1, wt[Len(wt)].wt2)
    /\ Ge(wt[Len(wt)].wt1, Num(config.overbought_threshold))
    /\ \A i \in 1..Len(signals_df) :
          ~signals_df[i].buySignal /\ ~signals_df[i].sellSignal


HorizonConfigs ==
    [oversold_threshold : {OversoldThreshold},
     overbought_threshold : {OverboughtThreshold},
     max_monitoring_hours : SweepHours]

InitHorizon ==
    /\ InitStore
    /\ pass = IdlePass
    /\ procs = [p \in Procs |-> IdleProc]
    /\ wt = <<>>
    /\ signals_df = <<>>
    /\ config \in HorizonConfigs
    /\ ema_df = <<>>
    /\ alerts = {}
    /\ fetcher = <<>>
    /\ ohlc = <<>>

SpecHorizon == InitHorizon /\ [][Next]_vars

(***************************************************************************)
(* C16: in SpecHorizon, every record inserted has status MONITORING,       *)
(* created_at equal to the time of insertion and expires_at equal to       *)
(* created_at plus the configured monitoring hours the sweep is called     *)
(* with; and the sweep removes a record exactly when its expires_at has    *)
(* passed.                                                                 *)
(***************************************************************************)
C16_ExpiresAtIsSweepHorizon ==
    [][/\ \A r \in store' \ store :
             /\ r.status = "MONITORING"
             /\ r.created_at = now
             /\ r.expires_at = r.created_at + config.max_monitoring_hours
       /\ op'.name = "cleanup_expired_signals" =>
             \A r \in store : (r \notin store') <=> (r.expires_at < now)]_vars


C19_LevelTestOnCurrentBar ==
    [][(op'.name = "check_vwma_cross" /\ op'.df.fetch = "ok" /\ op'.df.vwma # NoVwma) =>
          LET confirmed == Len(execution_signals') = Len(execution_signals) + 1
          IN /\ op'.pending.direction = "BUY" =>
                   (confirmed <=> op'.df.close > op'.df.vwma)
             /\ op'.pending.direction = "SELL" =>
                   (confirmed <=> op'.df.close < op'.df.vwma)
             /\ op'.df.close = op'.df.vwma =>
                   (~confirmed /\ op'.pending \in store')]_vars

\* Within one pass a first record was confirmed and a second one, checked
\* with the close equal to a VWMA above the one stored with it, was not.
C19_Witness ==
    /\ op.name = "check_vwma_cross"
    /\ op.df.fetch = "ok"
    /\ op.df.close = op.df.vwma
    /\ op.df.vwma > op.pending.vwma_at_signal
    /\ op.pending \in store
    /\ Len(execution_signals) = 1


(***************************************************************************)
(* SpecEma: detect_ema_crossover of the 5m analyzer applied to a given     *)
(* frame.  A frame has its columns and its rows; calculate_emas adds the   *)
(* columns ema_fast and ema_slow only when it has enough candles.          *)
(***************************************************************************)
EmaRows ==
    {[ema_fast |-> f, ema_slow |-> Num(100)] : f \in {NaN, Num(99), Num(100), Num(101)}}
        \cup {[ema_fast |-> Num(100), ema_slow |-> NaN]}

EmaInputs ==
    {[columns |-> c, rows |-> r] :
        c \in {{"close"}, {"close", "ema_fast", "ema_slow"}},
        r \in UNION {[1..n -> EmaRows] : n \in 0..MaxEmaBars}}

\* lines 142-161 for row i (1-based, i > 1)
EmaCrossAt(rows, i, signal_direction) ==
    LET current_fast == rows[i].ema_fast
        current_slow == rows[i].ema_slow
        prev_fast == rows[i - 1].ema_fast
        prev_slow == rows[i - 1].ema_slow
    IN /\ NaN \notin {current_fast, current_slow, prev_fast, prev_slow}
       /\ \/ /\ signal_direction = "BUY"
             /\ current_fast[1] > current_slow[1]
             /\ prev_fast[1] <= prev_slow[1]
          \/ /\ signal_direction = "SELL"
             /\ current_fast[1] < current_slow[1]
             /\ prev_fast[1] >= prev_slow[1]

\* A plausible slip: the scan covers the last four rows.
DetectEmaCrossover_LastFour(df, signal_direction) ==
    IF ~({"ema_fast", "ema_slow"} \subseteq df.columns) THEN FALSE
    ELSE \E i \in Max(2, Len(df.rows) - 3)..Len(df.rows) :
            EmaCrossAt(df.rows, i, signal_direction)

\* for i in range(max(1, len(df) - 3), len(df)), rows counted from 1 here
DetectEmaCrossover(df, signal_direction) ==
    IF ~({"ema_fast", "ema_slow"} \subseteq df.columns) THEN FALSE
    ELSE \E i \in Max(2, Len(df.rows) - 2)..Len(df.rows) :
            EmaCrossAt(df.rows, i, signal_direction)

InitEma ==
    /\ InitStore
    /\ pass = IdlePass
    /\ procs = [p \in Procs |-> IdleProc]
    /\ wt = <<>>
    /\ signals_df = <<>>
    /\ config = DefaultConfig
    /\ ema_df \in EmaInputs
    /\ alerts = {}
    /\ fetcher = <<>>
    /\ ohlc = <<>>

DetectCrossover ==
    /\ \E signal_direction \in Directions :
          /\ ret' = DetectEmaCrossover(ema_df, signal_direction)
          /\ op' = [name |-> "detect_ema_crossover",
                    signal_direction |-> signal_direction]
    /\ UNCHANGED <<store, seq, now, pending_signals, idx, execution_signals,
                   pass, procs, wt, signals_df, config, ema_df,
          alerts, fetcher, ohlc>>

NextEma == DetectCrossover

SpecEma == InitEma /\ [][NextEma]_vars

\* fast is above slow on bar i and was at or below it on bar i-1
FastCrossedAbove(i) ==
    /\ Gt(ema_df.rows[i].ema_fast, ema_df.rows[i].ema_slow)
    /\ Le(ema_df.rows[i - 1].ema_fast, ema_df.rows[i - 1].ema_slow)

\* fast is below slow on bar i and was at or above it on bar i-1
FastCrossedBelow(i) ==
    /\ Lt(ema_df.rows[i].ema_fast, ema_df.rows[i].ema_slow)
    /\ Ge(ema_df.rows[i - 1].ema_fast, ema_df.rows[i - 1].ema_slow)

\* the bars among the last 3 that have a bar before them
LastThree == {i \in 2..Len(ema_df.rows) : Len(ema_df.rows) - i < 3}

(***************************************************************************)
(* C20: in SpecEma, on a frame that has the EMA columns,                   *)
(* detect_ema_crossover returns true for BUY exactly when on one of the    *)
(* last 3 bars fast is above slow and was at or below it on the bar        *)
(* before, and for SELL exactly when on one of the last 3 bars fast is     *)
(* below slow and was at or above it on the bar before.                    *)
(***************************************************************************)
C20_EmaCrossInLastThree ==
    (op.name = "detect_ema_crossover" /\ "ema_fast" \in ema_df.columns) =>
        /\ op.signal_direction = "BUY" =>
              (ret <=> \E i \in LastThree : FastCrossedAbove(i))
        /\ op.signal_direction = "SELL" =>
              (ret <=> \E i \in LastThree : FastCrossedBelow(i))

\* Five bars with a BUY crossover on the second and a SELL crossover on
\* the fourth: asked for a BUY, the answer is no.
C20_Witness ==
    /\ op.name = "detect_ema_crossover"
    /\ op.signal_direction = "BUY"
    /\ "ema_fast" \in ema_df.columns
    /\ Len(ema_df.rows) = 5
    /\ FastCrossedAbove(2)
    /\ FastCrossedBelow(4)
    /\ ret = FALSE


(***************************************************************************)
(* C21: in Spec, a Stage-1 detection whose candle fetch yields nothing,    *)
(* whose oscillator frame is empty or whose VWMA cannot be computed        *)
(* returns no signal and leaves every record of the store as it was.       *)
(***************************************************************************)
C21_MissingDataLeavesStore ==
    [][(/\ op'.name = "detect_new_cipherb_signals"
        /\ \/ op'.df.fetch # "ok"
           \/ op'.signals = <<>>
           \/ op'.df.vwma <= 0)
       => (store' = store /\ ret' = NoSignal)]_vars

\* A detection with candles and a SELL signal on the latest bar but no
\* VWMA, for a symbol that has a BUY record: nothing was returned and the
\* BUY record is still there.
C21_Witness ==
    /\ op.name = "detect_new_cipherb_signals"
    /\ op.df.fetch = "ok"
    /\ op.df.vwma = NoVwma
    /\ op.signals # <<>>
    /\ op.signals[Len(op.signals)].sellSignal
    /\ Monitoring(store, op.symbol, "BUY") # {}
    /\ ret = NoSignal


(***************************************************************************)
(* SpecFault: passes of run_enhanced_analysis in which any store call may  *)
(* fail (locked or unreadable database).  Every SignalManager method wraps *)
(* its transaction in try/except, so a failing call changes nothing and    *)
(* returns the method's fallback value.  `raised` tells whether the call   *)
(* let an exception out, `failed` whether the call was made and failed.    *)
(***************************************************************************)
NoSignalId == 0

StoreCalls == {"cancel_opposite_signal", "get_pending_signal", "store_pending_signal"}

TryCancelOppositeSignal(st, symbol, direction, fail) ==
    IF fail THEN [store |-> st, ret |-> FALSE, raised |-> FALSE]
    ELSE [store |-> CancelOppositeSignal(st, symbol, direction).store,
          ret |-> CancelOppositeSignal(st, symbol, direction).ret, raised |-> FALSE]

TryGetPendingSignal(st, symbol, direction, fail) ==
    IF fail THEN [ret |-> None, raised |-> FALSE]
    ELSE [ret |-> GetPendingSignal(st, symbol, direction), raised |-> FALSE]

TryStorePendingSignal(st, sq, symbol, direction, vwma_at_signal, t, fail) ==
    IF fail THEN [store |-> st, seq |-> sq, ret |-> NoSignalId, raised |-> FALSE]
    ELSE [store |-> StorePendingSignal(st, sq, symbol, direction, vwma_at_signal, t).store,
          seq |-> StorePendingSignal(st, sq, symbol, direction, vwma_at_signal, t).seq,
          ret |-> StorePendingSignal(st, sq, symbol, direction, vwma_at_signal, t).ret,
          raised |-> FALSE]

\* A plausible slip: delete_signal without its try/except.
TryDeleteSignal_Unguarded(st, signal_id, fail) ==
    IF fail THEN [store |-> st, ret |-> FALSE, raised |-> TRUE]
    ELSE [store |-> DeleteSignal(st, signal_id).store,
          ret |-> DeleteSignal(st, signal_id).ret, raised |-> FALSE]

TryDeleteSignal(st, signal_id, fail) ==
    IF fail THEN [store |-> st, ret |-> FALSE, raised |-> FALSE]
    ELSE [store |-> DeleteSignal(st, signal_id).store,
          ret |-> DeleteSignal(st, signal_id).ret, raised |-> FALSE]

\* Lines 199-259 with the calls of `faults` failing; an exception that got
\* out of a call would end in the handler's except (lines 263-265).
Stage1BranchFaulty(st, sq, symbol, direction, current_vwma, current_price, t, faults) ==
    LET cancelled == TryCancelOppositeSignal(st, symbol, Opposite(direction),
                                             "cancel_opposite_signal" \in faults)
        existing_signal == TryGetPendingSignal(cancelled.store, symbol, direction,
                                               "get_pending_signal" \in faults)
        stored == TryStorePendingSignal(cancelled.store, sq, symbol, direction,
                                        current_vwma, t, "store_pending_signal" \in faults)
        made == IF existing_signal.ret = None THEN StoreCalls
                ELSE StoreCalls \ {"store_pending_signal"}
    IN IF cancelled.raised
       THEN [store |-> st, seq |-> sq, ret |-> NoSignal, failed |-> faults \cap made]
       ELSE IF existing_signal.raised
       THEN [store |-> cancelled.store, seq |-> sq, ret |-> NoSignal,
             failed |-> faults \cap made]
       ELSE IF existing_signal.ret # None
       THEN [store |-> cancelled.store, seq |-> sq, ret |-> NoSignal,
             failed |-> faults \cap made]
       ELSE IF stored.raised
       THEN [store |-> cancelled.store, seq |-> sq, ret |-> NoSignal,
             failed |-> faults \cap made]
       ELSE [store |-> stored.store, seq |-> stored.seq,
             ret |-> [has |-> TRUE,
                      data |-> [signal_id |-> stored.ret, symbol |-> symbol,
                                direction |-> direction, vwma_target |-> current_vwma,
                                current_price |-> current_price]],
             failed |-> faults \cap made]

DetectNewCipherbSignalsFaulty(st, sq, coin, df, signals, t, faults) ==
    LET symbol == Upper(coin)
        unchanged == [store |-> st, seq |-> sq, ret |-> NoSignal, failed |-> {}]
        latest_signals == signals[Len(signals)]
        current_vwma == CalculateVwma21(df)
    IN IF df.fetch # "ok" THEN unchanged
       ELSE IF signals = <<>> THEN unchanged
       ELSE IF current_vwma = NoVwma THEN unchanged
       ELSE IF latest_signals.buySignal
            THEN Stage1BranchFaulty(st, sq, symbol, "BUY", current_vwma, df.close, t, faults)
       ELSE IF latest_signals.sellSignal
            THEN Stage1BranchFaulty(st, sq, symbol, "SELL", current_vwma, df.close, t, faults)
       ELSE unchanged

\* One iteration of lines 277-336 with delete_signal failing when `fail`.
\* An exception inside the try block reaches the except branch, whose own
\* delete_signal (line 335) is outside any try: an exception there leaves
\* the loop and the pass.
CheckOneFaulty(acc, pending, df, t, fail) ==
    LET deleted == TryDeleteSignal(acc.store, pending.signal_id, fail)
        handler == TryDeleteSignal(acc.store, pending.signal_id, fail)
        current_vwma == CalculateVwma21(df)
        confirmed == df.fetch = "ok" /\ current_vwma # NoVwma
                     /\ CrossConfirmed(pending.direction, df.close, current_vwma)
        events == IF confirmed
                  THEN Append(acc.execution_signals, ExecutionSignal(pending, df, t))
                  ELSE acc.execution_signals
    IN IF df.fetch = "raise"
       THEN [store |-> handler.store, execution_signals |-> acc.execution_signals,
             aborted |-> handler.raised, failed |-> fail]
       ELSE IF df.fetch = "none" \/ current_vwma = NoVwma \/ confirmed
       THEN IF deleted.raised
            THEN [store |-> handler.store, execution_signals |-> events,
                  aborted |-> handler.raised, failed |-> fail]
            ELSE [store |-> deleted.store, execution_signals |-> events,
                  aborted |-> FALSE, failed |-> fail]
       ELSE [store |-> acc.store, execution_signals |-> acc.execution_signals,
             aborted |-> FALSE, failed |-> FALSE]

FaultIdlePass ==
    [pc |-> "idle", coins |-> <<>>, listed |-> <<>>, seen |-> <<>>,
     stage1_failed |-> <<>>, listed_pending |-> <<>>, checked |-> <<>>,
     stage2_failed |-> <<>>]

\* lines 351-353
FaultStart ==
    /\ pass.pc \in {"idle", "returned"}
    /\ \E coins \in CoinLists :
          IF coins = <<>>
          THEN /\ pass' = FaultIdlePass
               /\ op' = [name |-> "run_enhanced_analysis", swept |-> FALSE]
          ELSE /\ pass' = [FaultIdlePass EXCEPT !.pc = "stage1", !.coins = coins,
                                                !.listed = coins]
               /\ op' = [name |-> "load_high_risk_market_data"]
    /\ ret' = None
    /\ UNCHANGED <<store, seq, now, pending_signals, idx, execution_signals>>

\* lines 371-378: the next coin of the list
FaultStage1 ==
    /\ pass.pc = "stage1"
    /\ pass.coins # <<>>
    /\ \E df \in Stage1Frames, signals \in SignalFrames \cup {<<>>},
          faults \in SUBSET StoreCalls :
          LET r == DetectNewCipherbSignalsFaulty(store, seq, Head(pass.coins), df,
                                                 signals, now, faults)
          IN /\ r.seq <= MaxId
             /\ store' = r.store
             /\ seq' = r.seq
             /\ ret' = r.ret
             /\ op' = [name |-> "detect_new_cipherb_signals",
                       symbol |-> Upper(Head(pass.coins)), failed |-> r.failed]
             /\ pass' = [pass EXCEPT !.coins = Tail(pass.coins),
                                     !.seen = Append(pass.seen, Upper(Head(pass.coins))),
                                     !.stage1_failed = Append(pass.stage1_failed,
                                                              r.failed # {})]
    /\ UNCHANGED <<now, pending_signals, idx, execution_signals>>

\* lines 272-273
FaultStage2Begin ==
    /\ pass.pc = "stage1"
    /\ pass.coins = <<>>
    /\ pending_signals' = GetAllPendingSignals(store)
    /\ idx' = 1
    /\ execution_signals' = <<>>
    /\ pass' = [pass EXCEPT !.pc = "stage2",
                            !.listed_pending = GetAllPendingSignals(store)]
    /\ op' = [name |-> "get_all_pending_signals"]
    /\ ret' = None
    /\ UNCHANGED <<store, seq, now>>

\* one iteration of the loop, lines 277-336
FaultStage2Step ==
    /\ pass.pc = "stage2"
    /\ idx <= Len(pending_signals)
    /\ \E df \in Frames, fail \in BOOLEAN :
          LET r == CheckOneFaulty([store |-> store,
                                   execution_signals |-> execution_signals],
                                  pending_signals[idx], df, now, fail)
          IN /\ store' = r.store
             /\ execution_signals' = r.execution_signals
             /\ op' = [name |-> "check_vwma_cross", pending |-> pending_signals[idx],
                       df |-> df, failed |-> r.failed]
             /\ pass' = [pass EXCEPT !.pc = IF r.aborted THEN "aborted" ELSE "stage2",
                                     !.checked = Append(pass.checked,
                                                        pending_signals[idx]),
                                     !.stage2_failed = Append(pass.stage2_failed,
                                                              r.failed)]
    /\ idx' = idx + 1
    /\ ret' = None
    /\ UNCHANGED <<seq, now, pending_signals>>

\* line 338
FaultStage2Return ==
    /\ pass.pc = "stage2"
    /\ idx > Len(pending_signals)
    /\ ret' = execution_signals
    /\ op' = [name |-> "check_vwma_crosses_for_pending_signals",
              checked |-> Len(pending_signals)]
    /\ pending_signals' = <<>>
    /\ idx' = 0
    /\ execution_signals' = <<>>
    /\ pass' = [pass EXCEPT !.pc = "cleanup"]
    /\ UNCHANGED <<store, seq, now>>

\* lines 405-420
FaultCleanup ==
    /\ pass.pc = "cleanup"
    /\ store' = CleanupExpiredSignals(store, now, config.max_monitoring_hours).store
    /\ op' = [name |-> "run_enhanced_analysis", swept |-> TRUE]
    /\ ret' = None
    /\ pass' = [pass EXCEPT !.pc = "returned"]
    /\ UNCHANGED <<seq, now, pending_signals, idx, execution_signals>>

faultOther == <<procs, wt, signals_df, config, ema_df, alerts, fetcher, ohlc>>

InitFault ==
    /\ InitStore
    /\ pass = FaultIdlePass
    /\ procs = [p \in Procs |-> IdleProc]
    /\ wt = <<>>
    /\ signals_df = <<>>
    /\ config = DefaultConfig
    /\ ema_df = <<>>
    /\ alerts = {}
    /\ fetcher = <<>>
    /\ ohlc = <<>>

NextFault ==
    \/ FaultStart /\ UNCHANGED faultOther
    \/ FaultStage1 /\ UNCHANGED faultOther
    \/ FaultStage2Begin /\ UNCHANGED faultOther
    \/ FaultStage2Step /\ UNCHANGED faultOther
    \/ FaultStage2Return /\ UNCHANGED faultOther
    \/ FaultCleanup /\ UNCHANGED faultOther

SpecFault == InitFault /\ [][NextFault]_vars

(***************************************************************************)
(* C22: in SpecFault, whichever store calls fail, no pass is left early:   *)
(* a pass that got past its coin list comes to its end having run Stage 1  *)
(* for every coin of the list, in order, and the Stage-2 loop for every    *)
(* record of the list it read.                                             *)
(***************************************************************************)
C22_StoreFailureDoesNotAbort ==
    /\ pass.pc # "aborted"
    /\ pass.pc \in {"stage2", "cleanup", "returned"} =>
          pass.seen = [i \in 1..Len(pass.listed) |-> Upper(pass.listed[i])]
    /\ pass.pc \in {"cleanup", "returned"} => pass.checked = pass.listed_pending

\* A pass over two coins that is over: a store call failed for the first
\* coin and delete_signal failed for the first of two pending records, and
\* the second coin and the second record were processed all the same.
C22_Witness ==
    /\ pass.pc = "returned"
    /\ pass.seen = <<"BTC", "ETH">>
    /\ pass.stage1_failed = <<TRUE, FALSE>>
    /\ Len(pass.checked) = 2
    /\ pass.stage2_failed = <<TRUE, FALSE>>


(***************************************************************************)
(* SpecAlert: passes of run_enhanced_analysis and of analyze_5m with their *)
(* alert dispatches, and calls of send_alerts and send_consolidated_alert. *)
(* A dispatch is one message handed to Telegram; it is recorded in         *)
(* `alerts` with its stage (0: the consolidated alert), the id of the      *)
(* signal it is about (NoSignalId for a batch), the number n of signals in *)
(* the message and whether the send succeeded.  The 15m analyzer sends one *)
(* message per signal (lines 388-389 and 400-401).  `alerts` starts empty  *)
(* with every pass and every call.                                         *)
(***************************************************************************)
Dispatch(stage, signal_id, n, ok) ==
    [stage |-> stage, signal_id |-> signal_id, n |-> n, ok |-> ok]

\* for signal in signals: send(signal), the i-th send succeeding when oks[i]
SendEach(stage, signals, oks) ==
    {Dispatch(stage, signals[i].signal_id, 1, oks[i]) : i \in 1..Len(signals)}

\* send_execution_alert(buy_confirmations, sell_confirmations): one message
SendExecutionAlert(buy_confirmations, sell_confirmations, ok) ==
    [sent |-> {Dispatch(2, NoSignalId,
                        Len(buy_confirmations) + Len(sell_confirmations), ok)},
     ret |-> ok]

\* A plausible slip: send_alerts without its test for empty lists.
SendAlerts_Unguarded(buy_confirmations, sell_confirmations, ok) ==
    SendExecutionAlert(buy_confirmations, sell_confirmations, ok)

\* EMAConfirmationAnalyzer5m.send_alerts
SendAlerts(buy_confirmations, sell_confirmations, ok) ==
    IF buy_confirmations # <<>> \/ sell_confirmations # <<>>
    THEN SendExecutionAlert(buy_confirmations, sell_confirmations, ok)
    ELSE [sent |-> {}, ret |-> TRUE]

\* send_consolidated_alert(all_signals): `env` tells whether the bot token
\* and the chat id are set, `ok` whether the POST succeeds
SendConsolidatedAlert(all_signals, env, ok) ==
    IF ~env \/ all_signals = <<>>
    THEN [sent |-> {}, ret |-> FALSE]
    ELSE [sent |-> {Dispatch(0, NoSignalId, Len(all_signals), ok)}, ret |-> ok]

AlertIdlePass == [pc |-> "idle", coins |-> <<>>, new_signals |-> <<>>]

\* The lists of confirmations and of signals the senders are called with.
SignalLists == {<<>>, <<[symbol |-> "BTC"]>>, <<[symbol |-> "BTC"], [symbol |-> "ETH"]>>}

\* lines 351-353
AlertPassStart ==
    /\ pass.pc = "idle"
    /\ Idle
    /\ \E coins \in CoinLists :
          IF coins = <<>>
          THEN /\ pass' = AlertIdlePass
               /\ op' = [name |-> "run_enhanced_analysis"]
          ELSE /\ pass' = [AlertIdlePass EXCEPT !.pc = "stage1", !.coins = coins]
               /\ op' = [name |-> "load_high_risk_market_data"]
    /\ ret' = None
    /\ alerts' = {}
    /\ UNCHANGED <<store, seq, now, pending_signals, idx, execution_signals>>

\* lines 371-375: the next coin of the list
AlertStage1 ==
    /\ pass.pc = "stage1"
    /\ pass.coins # <<>>
    /\ DoStage1(Head(pass.coins)) \/ DoStage1Quiet(Head(pass.coins))
    /\ pass' = [pass EXCEPT !.coins = Tail(pass.coins),
                            !.new_signals = IF ret'.has
                                            THEN Append(pass.new_signals, ret'.data)
                                            ELSE pass.new_signals]
    /\ UNCHANGED alerts

\* lines 385-389
AlertStage1Send ==
    /\ pass.pc = "stage1"
    /\ pass.coins = <<>>
    /\ \E oks \in [1..Len(pass.new_signals) -> BOOLEAN] :
          /\ alerts' = alerts \cup SendEach(1, pass.new_signals, oks)
          /\ op' = [name |-> "send_stage1_alerts", signals |-> pass.new_signals,
                    oks |-> oks]
    /\ ret' = None
    /\ pass' = [pass EXCEPT !.pc = "stage2"]
    /\ UNCHANGED <<store, seq, now, pending_signals, idx, execution_signals>>

\* A plausible slip: Stage 2 works on the records that were pending before
\* Stage 1 of the pass ran.
AlertStage2Begin_BeforeStage1 ==
    /\ pass.pc = "stage2"
    /\ Idle
    /\ pending_signals' =
          GetAllPendingSignals({r \in store :
              \A i \in 1..Len(pass.new_signals) :
                  pass.new_signals[i].signal_id # r.signal_id})
    /\ idx' = 1
    /\ execution_signals' = <<>>
    /\ op' = [name |-> "get_all_pending_signals"]
    /\ ret' = None
    /\ UNCHANGED <<store, seq, now, pass, alerts>>

\* line 395
AlertStage2Begin ==
    /\ pass.pc = "stage2"
    /\ DoStage2Begin
    /\ UNCHANGED <<pass, alerts>>

AlertStage2Step ==
    /\ pass.pc = "stage2"
    /\ DoStage2Step
    /\ UNCHANGED <<pass, alerts>>

\* lines 395-403: the list comes back and each confirmation is sent
AlertStage2Send ==
    /\ pass.pc = "stage2"
    /\ idx >= 1
    /\ idx > Len(pending_signals)
    /\ \E oks \in [1..Len(execution_signals) -> BOOLEAN] :
          /\ alerts' = alerts \cup SendEach(2, execution_signals, oks)
          /\ op' = [name |-> "send_stage2_alerts", signals |-> execution_signals,
                    oks |-> oks]
    /\ ret' = None
    /\ pending_signals' = <<>>
    /\ idx' = 0
    /\ execution_signals' = <<>>
    /\ pass' = [pass EXCEPT !.pc = "cleanup"]
    /\ UNCHANGED <<store, seq, now>>

\* lines 405-420
AlertCleanup ==
    /\ pass.pc = "cleanup"
    /\ store' = CleanupExpiredSignals(store, now, config.max_monitoring_hours).store
    /\ op' = [name |-> "run_enhanced_analysis"]
    /\ ret' = None
    /\ pass' = AlertIdlePass
    /\ UNCHANGED <<seq, now, pending_signals, idx, execution_signals, alerts>>

\* analyze_5m
Analyze5m ==
    /\ pass.pc = "idle"
    /\ Idle
    /\ \E f \in EmaFrames, ok \in BOOLEAN :
          LET r == ProcessPendingSignals(store, f)
              sent == IF r.buy # <<>> \/ r.sell # <<>>
                      THEN SendAlerts(r.buy, r.sell, ok)
                      ELSE [sent |-> {}, ret |-> TRUE]
          IN /\ store' = r.store
             /\ alerts' = sent.sent
             /\ ret' = [returned |-> sent.ret]
             /\ op' = [name |-> "analyze_5m", buy |-> r.buy, sell |-> r.sell]
    /\ UNCHANGED <<seq, now, pending_signals, idx, execution_signals, pass>>

\* send_alerts(buy_confirmations, sell_confirmations)
CallSendAlerts ==
    /\ pass.pc = "idle"
    /\ Idle
    /\ \E buy \in SignalLists, sell \in SignalLists, ok \in BOOLEAN :
          LET r == SendAlerts(buy, sell, ok)
          IN /\ alerts' = r.sent
             /\ ret' = [returned |-> r.ret]
             /\ op' = [name |-> "send_alerts", buy |-> buy, sell |-> sell]
    /\ UNCHANGED <<store, seq, now, pending_signals, idx, execution_signals, pass>>

\* send_consolidated_alert(all_signals)
CallSendConsolidatedAlert ==
    /\ pass.pc = "idle"
    /\ Idle
    /\ \E all_signals \in SignalLists, env \in BOOLEAN, ok \in BOOLEAN :
          LET r == SendConsolidatedAlert(all_signals, env, ok)
          IN /\ alerts' = r.sent
             /\ ret' = [returned |-> r.ret]
             /\ op' = [name |-> "send_consolidated_alert",
                       all_signals |-> all_signals, env |-> env]
    /\ UNCHANGED <<store, seq, now, pending_signals, idx, execution_signals, pass>>

alertOther == <<procs, wt, signals_df, config, ema_df, fetcher, ohlc>>

InitAlert ==
    /\ InitStore
    /\ pass = AlertIdlePass
    /\ procs = [p \in Procs |-> IdleProc]
    /\ wt = <<>>
    /\ signals_df = <<>>
    /\ config = DefaultConfig
    /\ ema_df = <<>>
    /\ alerts = {}
    /\ fetcher = <<>>
    /\ ohlc = <<>>

NextAlert ==
    \/ AlertPassStart /\ UNCHANGED alertOther
    \/ AlertStage1 /\ UNCHANGED alertOther
    \/ AlertStage1Send /\ UNCHANGED alertOther
    \/ AlertStage2Begin /\ UNCHANGED alertOther
    \/ AlertStage2Step /\ UNCHANGED alertOther
    \/ AlertStage2Send /\ UNCHANGED alertOther
    \/ AlertCleanup /\ UNCHANGED alertOther
    \/ Analyze5m /\ UNCHANGED alertOther
    \/ CallSendAlerts /\ UNCHANGED alertOther
    \/ CallSendConsolidatedAlert /\ UNCHANGED alertOther

SpecAlert == InitAlert /\ [][NextAlert]_vars

\* The scheduler starts pass after pass, and a pass that has started runs
\* to its end.
progressVars == <<store, seq, pending_signals, idx, execution_signals, pass, alerts>>

PassSteps ==
    \/ AlertPassStart
    \/ AlertStage1
    \/ AlertStage1Send
    \/ AlertStage2Begin
    \/ AlertStage2Step
    \/ AlertStage2Send
    \/ AlertCleanup

SpecAlertLive == SpecAlert /\ WF_progressVars(PassSteps /\ UNCHANGED alertOther)


\* A dispatch step leaves the store as the transition that produced the
\* alert left it.
DispatchKeepsStore ==
    [][op'.name \in {"send_stage1_alerts", "send_stage2_alerts"} => store' = store]_vars

\* Every alert of the 15m analyzer whose dispatch failed is dispatched with
\* success later on.
FailedDispatchDeliveredLater ==
    \A stage \in {1, 2}, signal_id \in 1..MaxId :
        (Dispatch(stage, signal_id, 1, FALSE) \in alerts)
            ~> (Dispatch(stage, signal_id, 1, TRUE) \in alerts)

(***************************************************************************)
(* C23: in SpecAlertLive, a failed dispatch of a Stage-1 or Stage-2 alert  *)
(* leaves the store mutation in effect, and the alert of that transition   *)
(* is delivered eventually, by a retry or by a later pass.                 *)
(***************************************************************************)
C23_AtLeastOnce == DispatchKeepsStore /\ FailedDispatchDeliveredLater


(***************************************************************************)
(* C24: in SpecAlert, no message is dispatched for an empty result set: a  *)
(* pass whose Stage 1 found no new signal sends no Stage-1 alert, a pass   *)
(* (15m or 5m) that confirmed nothing sends no Stage-2 alert, send_alerts  *)
(* with two empty lists sends nothing, and send_consolidated_alert with an *)
(* empty list sends nothing and returns False; no message carries zero     *)
(* signals.                                                                *)
(***************************************************************************)
C24_NoAlertForEmptyResult ==
    [][/\ \A a \in alerts' : a.n > 0
       /\ (op'.name \in {"send_stage1_alerts", "send_stage2_alerts"}
           /\ op'.signals = <<>>) => alerts' = alerts
       /\ (op'.name \in {"analyze_5m", "send_alerts"}
           /\ op'.buy = <<>> /\ op'.sell = <<>>) => alerts' = {}
       /\ (op'.name = "send_consolidated_alert" /\ op'.all_signals = <<>>)
              => (alerts' = {} /\ ret' = [returned |-> FALSE])]_vars

\* send_consolidated_alert was called with the token and the chat id set
\* and an empty list: nothing was sent and False came back.
C24_Witness ==
    /\ op.name = "send_consolidated_alert"
    /\ op.all_signals = <<>>
    /\ op.env
    /\ alerts = {}
    /\ ret = [returned |-> FALSE]


(***************************************************************************)
(* SpecFetch: CoinGeckoFetcher.fetch_market_coins (data_fetcher.py).  One  *)
(* step is one HTTP request.  session.get goes through the adapter that    *)
(* create_robust_session mounts: Retry(total=5) repeats a request that met *)
(* a connection error or a status of its force list, and gives up after    *)
(* five repeats.  `calls` counts the session.get calls, `requests` the     *)
(* HTTP requests, `coins` the pages whose data was appended.               *)
(***************************************************************************)
MaxAttempts == 3
RetryTotal == 5
RetryAfterDefault == 60

StatusForcelist == {"429", "503"}

\* What the server answers to one request: a page of data, an empty page,
\* a status of the force list, another error status, or no answer.
Replies == {"data", "empty", "429", "503", "404", "connection_error"}

IdleFetcher ==
    [pc |-> "idle", pages |-> 0, page |-> 0, attempt |-> 0, retries |-> 0,
     calls |-> 0, requests |-> 0, coins |-> 0]

\* lines 117-124: the attempts for the page are over
NextPage(f) ==
    IF f.page < f.pages
    THEN [f EXCEPT !.page = f.page + 1, !.attempt = 0, !.retries = 0]
    ELSE [f EXCEPT !.pc = "done", !.attempt = 0, !.retries = 0]

\* A plausible slip: the last attempt is taken to be number max_attempts.
AttemptFailed_OneMore(f) ==
    IF f.attempt = MaxAttempts
    THEN [f |-> NextPage(f), slept |-> 0]
    ELSE [f |-> [f EXCEPT !.attempt = f.attempt + 1, !.retries = 0],
          slept |-> 2 ^ f.attempt + 1]

\* lines 110-115: the except branch
AttemptFailed(f) ==
    IF f.attempt = MaxAttempts - 1
    THEN [f |-> NextPage(f), slept |-> 0]
    ELSE [f |-> [f EXCEPT !.attempt = f.attempt + 1, !.retries = 0],
          slept |-> 2 ^ f.attempt + 1]

\* lines 92-97: a 429 response sleeps Retry-After + 1 and continues with the
\* next attempt, if there is one
RateLimited(f) ==
    IF f.attempt = MaxAttempts - 1
    THEN [f |-> NextPage(f), slept |-> RetryAfterDefault + 1]
    ELSE [f |-> [f EXCEPT !.attempt = f.attempt + 1, !.retries = 0],
          slept |-> RetryAfterDefault + 1]

\* What an HTTP request answered with `reply` leads to.  When the adapter
\* has used up its repeats on a status of the force list it raises or hands
\* the last response back, after the urllib3 in use (`hands_back`).
HttpRequest(f, reply, hands_back) ==
    LET g == [f EXCEPT !.requests = f.requests + 1,
                       !.calls = IF f.retries = 0 THEN f.calls + 1 ELSE f.calls]
    IN IF reply = "data"
       THEN [f |-> NextPage([g EXCEPT !.coins = g.coins + 1]), slept |-> 0]
       ELSE IF reply = "empty"
       THEN [f |-> NextPage(g), slept |-> 0]
       ELSE IF reply = "404"
       THEN AttemptFailed(g)
       ELSE IF g.retries < RetryTotal
       THEN [f |-> [g EXCEPT !.retries = g.retries + 1], slept |-> 0]
       ELSE IF reply = "429" /\ hands_back
       THEN RateLimited(g)
       ELSE AttemptFailed(g)

\* lines 64-74
FetchStart ==
    /\ fetcher.pc \in {"idle", "done"}
    /\ \E pages \in 1..MaxPages :
          fetcher' = [IdleFetcher EXCEPT !.pc = "fetching", !.pages = pages, !.page = 1]
    /\ op' = [name |-> "fetch_market_coins"]
    /\ ret' = None

\* line 90: one request of session.get
FetchRequest ==
    /\ fetcher.pc = "fetching"
    /\ \E reply \in Replies, hands_back \in BOOLEAN :
          LET r == HttpRequest(fetcher, reply, hands_back)
          IN /\ fetcher' = r.f
             /\ op' = [name |-> "session.get", reply |-> reply, page |-> fetcher.page,
                       attempt |-> fetcher.attempt, slept |-> r.slept]
             /\ ret' = IF r.f.pc = "done" THEN [coins |-> r.f.coins] ELSE None

fetchOther ==
    <<store, seq, now, pending_signals, idx, execution_signals, pass, procs, wt,
      signals_df, config, ema_df, alerts, ohlc>>

InitFetch ==
    /\ InitStore
    /\ pass = IdlePass
    /\ procs = [p \in Procs |-> IdleProc]
    /\ wt = <<>>
    /\ signals_df = <<>>
    /\ config = DefaultConfig
    /\ ema_df = <<>>
    /\ alerts = {}
    /\ fetcher = IdleFetcher
    /\ ohlc = <<>>

NextFetch ==
    \/ FetchStart /\ UNCHANGED fetchOther
    \/ FetchRequest /\ UNCHANGED fetchOther

SpecFetch == InitFetch /\ [][NextFetch]_vars

(***************************************************************************)
(* C25 as stated: in SpecFetch, a fetch makes at most 3 attempts per page  *)
(* and ends after at most 3 x pages requests.                              *)
(***************************************************************************)
C25_AtMostThreeRequestsPerPage ==
    /\ fetcher.attempt < MaxAttempts
    /\ fetcher.calls <= MaxAttempts * fetcher.pages
    /\ fetcher.requests <= MaxAttempts * fetcher.pages

(***************************************************************************)
(* C25 amended: in SpecFetch, a fetch makes at most 3 session.get calls    *)
(* per page, each of at most 1 + 5 HTTP requests, so it ends after at most *)
(* 3 x pages calls and 18 x pages requests; a failed attempt that is not   *)
(* the last sleeps 2^attempt + 1 seconds (a 429 response Retry-After + 1), *)
(* and when the attempts for a page are used up the fetch goes on with the *)
(* next page.                                                              *)
(***************************************************************************)
C25_BoundedAttempts ==
    /\ fetcher.attempt < MaxAttempts
    /\ fetcher.retries <= RetryTotal
    /\ fetcher.calls <= MaxAttempts * fetcher.pages
    /\ fetcher.requests <= MaxAttempts * (RetryTotal + 1) * fetcher.pages
    /\ fetcher.pc = "fetching" => fetcher.calls <= MaxAttempts * (fetcher.page - 1) + fetcher.attempt + 1
    /\ fetcher.pc = "done" => fetcher.page = fetcher.pages
    /\ (op.name = "session.get" /\ op.slept > 0) =>
          /\ op.attempt < MaxAttempts
          /\ op.slept \in {2 ^ op.attempt + 1, RetryAfterDefault + 1}
          /\ op.reply = "429" \/ op.slept = 2 ^ op.attempt + 1

\* A fetch of two pages that is over: every attempt for the first page
\* failed with the adapter's repeats used up (18 requests), and the second
\* page was fetched all the same.
C25_Witness ==
    /\ fetcher.pc = "done"
    /\ fetcher.pages = 2
    /\ fetcher.calls = MaxAttempts + 1
    /\ fetcher.requests = MaxAttempts * (RetryTotal + 1) + 1
    /\ fetcher.coins = 1


(***************************************************************************)
(* SpecOhlcv: ExchangeManager.fetch_ohlcv_with_fallback (utils/            *)
(* exchange_manager.py).  `available` is the set of exchanges that         *)
(* initialize_exchanges could set up; `answers` tells what fetch_ohlcv of  *)
(* each exchange does when asked: it returns candles, returns an empty     *)
(* list, or raises.  The frame returned is named after its exchange.       *)
(***************************************************************************)
ExchangeOrder == <<"bingx", "kucoin", "okx", "bybit">>

Exchanges == {ExchangeOrder[i] : i \in 1..Len(ExchangeOrder)}

Answers == {"candles", "empty", "exception"}

Min(a, b) == IF a <= b THEN a ELSE b

\* A plausible slip: the loop goes on after a success and the last frame wins.
FetchOhlcvWithFallback_LastWins(available, answers) ==
    LET IsAvailable(x) == x \in available
        tried == SelectSeq(ExchangeOrder, IsAvailable)
        succeeded == {i \in 1..Len(tried) : answers[tried[i]] = "candles"}
        last == CHOOSE i \in succeeded : \A j \in succeeded : j <= i
    IN IF succeeded = {}
       THEN [ret |-> None, queried |-> tried]
       ELSE [ret |-> [exchange |-> tried[last]], queried |-> tried]

\* lines 104-136: the exchanges of exchange_order that are available are
\* asked in turn up to the first that returns candles
FetchOhlcvWithFallback(available, answers) ==
    LET IsAvailable(x) == x \in available
        tried == SelectSeq(ExchangeOrder, IsAvailable)
        succeeded == {i \in 1..Len(tried) : answers[tried[i]] = "candles"}
        first == CHOOSE i \in succeeded : \A j \in succeeded : i <= j
    IN IF succeeded = {}
       THEN [ret |-> None, queried |-> tried]
       ELSE [ret |-> [exchange |-> tried[first]], queried |-> SubSeq(tried, 1, first)]

\* fetch_ohlcv_data(symbol)
FetchOhlcv ==
    \E available \in SUBSET Exchanges, answers \in [Exchanges -> Answers] :
        LET r == FetchOhlcvWithFallback(available, answers)
        IN /\ fetcher' = [available |-> available, answers |-> answers,
                          queried |-> r.queried]
           /\ ret' = r.ret
           /\ op' = [name |-> "fetch_ohlcv_with_fallback"]

NextOhlcv == FetchOhlcv /\ UNCHANGED fetchOther

SpecOhlcv == InitFetch /\ [][NextOhlcv]_vars

\* The position of exchange x in the fixed order.
Priority(x) == CHOOSE i \in 1..Len(ExchangeOrder) : ExchangeOrder[i] = x

(***************************************************************************)
(* C26: in SpecOhlcv, fetch_ohlcv_with_fallback asks the available         *)
(* exchanges in the order bingx, kucoin, okx, bybit; an exchange is asked  *)
(* exactly when every available exchange before it raised or answered     *)
(* with nothing; the result is the frame of the first exchange that        *)
(* returned candles, and it is None exactly when no available exchange     *)
(* returned candles.                                                       *)
(***************************************************************************)
C26_FirstSuccessInOrder ==
    op.name = "fetch_ohlcv_with_fallback" =>
        LET asked == {fetcher.queried[i] : i \in 1..Len(fetcher.queried)}
            Failed(x) == fetcher.answers[x] # "candles"
        IN /\ \A i, j \in 1..Len(fetcher.queried) :
                  i < j => Priority(fetcher.queried[i]) < Priority(fetcher.queried[j])
           /\ \A x \in Exchanges :
                  x \in asked <=>
                      /\ x \in fetcher.available
                      /\ \A y \in fetcher.available : Priority(y) < Priority(x) => Failed(y)
           /\ ret = None <=> \A x \in fetcher.available : Failed(x)
           /\ ret # None =>
                  /\ ret.exchange \in fetcher.available
                  /\ ~Failed(ret.exchange)
                  /\ ret.exchange = fetcher.queried[Len(fetcher.queried)]

\* bingx is not set up, kucoin raises, okx and bybit both have candles: the
\* frame of okx came back and bybit was not asked.
C26_Witness ==
    /\ op.name = "fetch_ohlcv_with_fallback"
    /\ fetcher.available = {"kucoin", "okx", "bybit"}
    /\ fetcher.answers["kucoin"] = "exception"
    /\ fetcher.answers["okx"] = "candles"
    /\ fetcher.answers["bybit"] = "candles"
    /\ fetcher.queried = <<"kucoin", "okx">>
    /\ ret = [exchange |-> "okx"]


(***************************************************************************)
(* SpecHa: utils/heikin_ashi.py.  A DataFrame is modelled by the OHLC      *)
(* columns it has, the ones among them whose dtype is object (text), and   *)
(* its rows; it always has its Volume column, so it is empty exactly when  *)
(* it has no rows.  Prices are whole multiples of 1/Scale, which makes     *)
(* every division of the recurrence exact, as it is in binary floating     *)
(* point for such values.                                                  *)
(***************************************************************************)
Scale == 2 ^ (MaxCandles + 1)

required_columns == {"Open", "High", "Low", "Close"}

CandleRows(values) ==
    [Open : values, High : values, Low : values, Close : values]

Frame(columns, object, rows) == [columns |-> columns, object |-> object, rows |-> rows]

\* Frames of up to MaxCandles candles with all columns numeric and prices 1
\* and 2, whatever the order of open, high, low and close.
NumericFrames ==
    {Frame(required_columns, {}, rows) :
        rows \in UNION {[1..n -> CandleRows({Scale, 2 * Scale})] : n \in 0..MaxCandles}}

\* Frames of one or two candles with a negative price somewhere.
NegativeFrames ==
    {Frame(required_columns, {}, rows) :
        rows \in {r \in UNION {[1..n -> CandleRows({0 - Scale, Scale})] : n \in 1..2} :
                     \E i \in 1..Len(r), col \in required_columns : r[i][col] < 0}}

OneCandle == <<[Open |-> Scale, High |-> 2 * Scale, Low |-> Scale, Close |-> 2 * Scale]>>

\* Frames that lack a column, and frames with a column of text.
MissingColumnFrames ==
    {Frame(columns, {}, OneCandle) : columns \in (SUBSET required_columns) \ {required_columns}}

TextColumnFrames ==
    {Frame(required_columns, object, OneCandle) : object \in (SUBSET required_columns) \ {{}}}

HaInputs == NumericFrames \cup NegativeFrames \cup MissingColumnFrames \cup TextColumnFrames

Max3(a, b, c) == Max(a, Max(b, c))
Min3(a, b, c) == Min(a, Min(b, c))

\* A plausible slip: the close is counted twice and the open left out.
HaClose_NoOpen(candle) ==
    (candle.Close + candle.High + candle.Low + candle.Close) \div 4

\* lines 41-42 and 53-54
HaClose(candle) ==
    (candle.Open + candle.High + candle.Low + candle.Close) \div 4

\* lines 40-68: the first i rows of the Heikin-Ashi frame
RECURSIVE HaRows(_, _)
HaRows(rows, i) ==
    IF i = 1
    THEN <<[Open |-> (rows[1].Open + rows[1].Close) \div 2,
            High |-> rows[1].High,
            Low |-> rows[1].Low,
            Close |-> HaClose(rows[1])]>>
    ELSE LET prev == HaRows(rows, i - 1)
             ha_close == HaClose(rows[i])
             ha_open == (prev[i - 1].Open + prev[i - 1].Close) \div 2
         IN Append(prev, [Open |-> ha_open,
                          High |-> Max3(rows[i].High, ha_open, ha_close),
                          Low |-> Min3(rows[i].Low, ha_open, ha_close),
                          Close |-> ha_close])

Raised(error) == [status |-> "raise", error |-> error, rows |-> <<>>]
Returned(rows) == [status |-> "ok", error |-> "", rows |-> rows]
ReturnedNone == [status |-> "none", error |-> "", rows |-> <<>>]

\* convert_to_heikin_ashi(df): an empty frame comes back as it is; a column
\* that is not there raises KeyError at line 41, text in a column TypeError
\* at lines 41-42, and the except branch raises again.
ConvertToHeikinAshi(df) ==
    IF df.rows = <<>> THEN Returned(<<>>)
    ELSE IF ~(required_columns \subseteq df.columns) THEN Raised("KeyError")
    ELSE IF df.object # {} THEN Raised("TypeError")
    ELSE Returned(HaRows(df.rows, Len(df.rows)))

\* A plausible slip: is_valid_ohlc without its test for negative prices.
IsValidOhlc_NegativeAllowed(df) ==
    /\ df.rows # <<>>
    /\ required_columns \subseteq df.columns
    /\ df.object = {}

\* is_valid_ohlc(df)
IsValidOhlc(df) ==
    /\ df.rows # <<>>
    /\ required_columns \subseteq df.columns
    /\ df.object = {}
    /\ \A i \in 1..Len(df.rows), col \in required_columns : df.rows[i][col] >= 0

\* prepare_heikin_ashi_data(ohlc_data, symbol)
PrepareHeikinAshiData(df) ==
    IF df.rows = <<>> THEN ReturnedNone
    ELSE IF ~IsValidOhlc(df) THEN ReturnedNone
    ELSE IF ConvertToHeikinAshi(df).status = "raise" THEN ReturnedNone
    ELSE ConvertToHeikinAshi(df)

Convert ==
    /\ ret' = ConvertToHeikinAshi(ohlc)
    /\ op' = [name |-> "convert_to_heikin_ashi"]
    /\ UNCHANGED ohlc

Prepare ==
    /\ ret' = PrepareHeikinAshiData(ohlc)
    /\ op' = [name |-> "prepare_heikin_ashi_data"]
    /\ UNCHANGED ohlc

haOther ==
    <<store, seq, now, pending_signals, idx, execution_signals, pass, procs, wt,
      signals_df, config, ema_df, alerts, fetcher>>

InitHa ==
    /\ InitStore
    /\ pass = IdlePass
    /\ procs = [p \in Procs |-> IdleProc]
    /\ wt = <<>>
    /\ signals_df = <<>>
    /\ config = DefaultConfig
    /\ ema_df = <<>>
    /\ alerts = {}
    /\ fetcher = <<>>
    /\ ohlc \in HaInputs

NextHa ==
    \/ Convert /\ UNCHANGED haOther
    \/ Prepare /\ UNCHANGED haOther

SpecHa == InitHa /\ [][NextHa]_vars

\* The frame given has all four columns, numeric, and at least one row.
Convertible == ohlc.rows # <<>> /\ required_columns \subseteq ohlc.columns /\ ohlc.object = {}

\* The recurrence at the indices after the first, and open and close at the
\* first.
RecurrenceAfterFirst ==
    /\ ret.status = "ok"
    /\ Len(ret.rows) = Len(ohlc.rows)
    /\ \A i \in 1..Len(ohlc.rows) :
          4 * ret.rows[i].Close =
              ohlc.rows[i].Open + ohlc.rows[i].High + ohlc.rows[i].Low + ohlc.rows[i].Close
    /\ 2 * ret.rows[1].Open = ohlc.rows[1].Open + ohlc.rows[1].Close
    /\ \A i \in 2..Len(ohlc.rows) :
          /\ 2 * ret.rows[i].Open = ret.rows[i - 1].Open + ret.rows[i - 1].Close
          /\ ret.rows[i].High = Max3(ohlc.rows[i].High, ret.rows[i].Open, ret.rows[i].Close)
          /\ ret.rows[i].Low = Min3(ohlc.rows[i].Low, ret.rows[i].Open, ret.rows[i].Close)

WellFormed(candle) ==
    /\ candle.Low <= candle.Open /\ candle.Open <= candle.High
    /\ candle.Low <= candle.Close /\ candle.Close <= candle.High

(***************************************************************************)
(* C27 as stated: in SpecHa, for every non-empty candle sequence the       *)
(* frame convert_to_heikin_ashi returns has the length of its input and    *)
(* satisfies the recurrence at every index, the first included:            *)
(* ha_high = max(high, ha_open, ha_close), ha_low = min(low, ha_open,      *)
(* ha_close).                                                              *)
(***************************************************************************)
C27_RecurrenceAtEveryIndex ==
    (op.name = "convert_to_heikin_ashi" /\ Convertible) =>
        /\ RecurrenceAfterFirst
        /\ ret.rows[1].High = Max3(ohlc.rows[1].High, ret.rows[1].Open, ret.rows[1].Close)
        /\ ret.rows[1].Low = Min3(ohlc.rows[1].Low, ret.rows[1].Open, ret.rows[1].Close)

(***************************************************************************)
(* C27 amended: in SpecHa, for every non-empty candle sequence the frame   *)
(* returned has the length of its input; ha_close and ha_open follow the   *)
(* recurrence at every index; ha_high and ha_low follow it at every index  *)
(* after the first, and at the first they are the candle's own high and    *)
(* low, which is the max and the min of the recurrence whenever the first  *)
(* candle has low <= open, close <= high.                                  *)
(***************************************************************************)
C27_RecurrenceFirstRawHighLow ==
    (op.name = "convert_to_heikin_ashi" /\ Convertible) =>
        /\ RecurrenceAfterFirst
        /\ ret.rows[1].High = ohlc.rows[1].High
        /\ ret.rows[1].Low = ohlc.rows[1].Low
        /\ WellFormed(ohlc.rows[1]) =>
              /\ ret.rows[1].High = Max3(ohlc.rows[1].High, ret.rows[1].Open, ret.rows[1].Close)
              /\ ret.rows[1].Low = Min3(ohlc.rows[1].Low, ret.rows[1].Open, ret.rows[1].Close)

\* Three candles converted: the first has its high below its open and close
\* and keeps it, the third got a high above its own from its ha_open.
C27_Witness ==
    /\ op.name = "convert_to_heikin_ashi"
    /\ Len(ohlc.rows) = 3
    /\ ret.status = "ok"
    /\ ret.rows[1].High = ohlc.rows[1].High
    /\ ret.rows[1].High < ret.rows[1].Open
    /\ ret.rows[3].High = ret.rows[3].Open
    /\ ret.rows[3].High > ohlc.rows[3].High


\* The four kinds of input named invalid.
EmptyInput == ohlc.rows = <<>>
MissingColumn == ohlc.rows # <<>> /\ ~(required_columns \subseteq ohlc.columns)
TextColumn == ohlc.rows # <<>> /\ ohlc.object # {}
NegativePrice ==
    /\ required_columns \subseteq ohlc.columns
    /\ ohlc.object = {}
    /\ \E i \in 1..Len(ohlc.rows), col \in required_columns : ohlc.rows[i][col] < 0

InvalidInput == EmptyInput \/ MissingColumn \/ TextColumn \/ NegativePrice

(***************************************************************************)
(* C28 as stated: in SpecHa, the Heikin-Ashi transform, called as          *)
(* convert_to_heikin_ashi or through prepare_heikin_ashi_data, fails and   *)
(* returns no candles when its input is empty, has a non-numeric price     *)
(* column, has a negative price or lacks one of Open/High/Low/Close.       *)
(***************************************************************************)
C28_InvalidInputFails ==
    (op.name \in {"convert_to_heikin_ashi", "prepare_heikin_ashi_data"} /\ InvalidInput) =>
        (ret.status # "ok" /\ ret.rows = <<>>)

(***************************************************************************)
(* C28 amended: in SpecHa, prepare_heikin_ashi_data returns None, and no   *)
(* candles, for each of the four invalid inputs.  convert_to_heikin_ashi   *)
(* itself validates nothing: it returns an empty frame unchanged, raises   *)
(* KeyError for a missing column and TypeError for a column of text, and   *)
(* converts a frame with negative prices like any other.                   *)
(***************************************************************************)
C28_PrepareRejectsInvalid ==
    /\ (op.name = "prepare_heikin_ashi_data" /\ InvalidInput) => ret = ReturnedNone
    /\ op.name = "convert_to_heikin_ashi" =>
          /\ EmptyInput => ret = Returned(<<>>)
          /\ MissingColumn => ret = Raised("KeyError")
          /\ (TextColumn /\ ~MissingColumn) => ret = Raised("TypeError")
          /\ NegativePrice => (ret.status = "ok" /\ Len(ret.rows) = Len(ohlc.rows))

\* prepare_heikin_ashi_data was given two candles, one with a negative low,
\* and returned None.
C28_Witness ==
    /\ op.name = "prepare_heikin_ashi_data"
    /\ NegativePrice
    /\ Len(ohlc.rows) = 2
    /\ ohlc.rows[2].Low < 0
    /\ ret = ReturnedNone


\* A Stage-1 detection with data and a BUY on the latest bar, for a symbol
\* without any record: one event comes back and the store gains one record,
\* (symbol, BUY), that carries the VWMA of the frame.
FreshBuyCreatesOneRecord ==
    (/\ op'.name = "detect_new_cipherb_signals"
     /\ op'.df.fetch = "ok"
     /\ op'.df.vwma > 0
     /\ op'.signals # <<>>
     /\ op'.signals[Len(op'.signals)].buySignal
     /\ \A r \in store : r.symbol # op'.symbol)
    => /\ ret'.has
       /\ ret'.data.symbol = op'.symbol
       /\ ret'.data.direction = "BUY"
       /\ \E r \in store' :
             /\ store' = store \cup {r}
             /\ r \notin store
             /\ r.signal_id = ret'.data.signal_id
             /\ r.symbol = op'.symbol
             /\ r.direction = "BUY"
             /\ r.vwma_at_signal = op'.df.vwma
             /\ r.created_at = now

\* The Stage-2 step on a BUY record, with data, tested against `level`.
BuyConfirmedAbove(level) ==
    (/\ op'.name = "check_vwma_cross"
     /\ op'.pending.direction = "BUY"
     /\ op'.df.fetch = "ok"
     /\ op'.df.vwma > 0)
    => IF op'.df.close > level
       THEN /\ op'.pending \notin store'
            /\ Len(execution_signals') = Len(execution_signals) + 1
       ELSE /\ store' = store
            /\ execution_signals' = execution_signals

C30_SignalOnAnyBarRecorded ==
    [][(/\ op'.name = "detect_new_cipherb_signals"
        /\ op'.df.fetch = "ok"
        /\ op'.df.vwma > 0)
       => \A i \in 1..Len(op'.signals) :
             /\ op'.signals[i].buySignal => Monitoring(store', op'.symbol, "BUY") # {}
             /\ op'.signals[i].sellSignal => Monitoring(store', op'.symbol, "SELL") # {}]_vars

(***************************************************************************)
(* C31: in SpecSig, for every wt1/wt2 series handed to                     *)
(* detect_cipherb_signals, the BUY condition never holds on two            *)
(* consecutive bars and neither does the SELL condition; hence buySignal   *)
(* equals the BUY condition and sellSignal the SELL condition at every     *)
(* bar.                                                                    *)
(***************************************************************************)
C31_ConditionNeverRepeats ==
    op.name = "detect_cipherb_signals" =>
        LET buy == BuyCondition(Column(wt, "wt1"), Column(wt, "wt2"),
                                config.oversold_threshold)
            sell == SellCondition(Column(wt, "wt1"), Column(wt, "wt2"),
                                  config.overbought_threshold)
        IN \A i \in 1..Len(wt) :
              /\ i > 1 => ~(buy[i - 1] /\ buy[i])
              /\ i > 1 => ~(sell[i - 1] /\ sell[i])
              /\ signals_df[i].buySignal = buy[i]
              /\ signals_df[i].sellSignal = sell[i]

\* A BUY cross on the bar before the last, both lines staying oversold and
\* wt1 staying above wt2 on the last bar: only the missing cross keeps the
\* condition from holding again.
C31_Witness ==
    /\ op.name = "detect_cipherb_signals"
    /\ Len(wt) >= 2
    /\ LET n == Len(wt)
       IN /\ signals_df[n - 1].buySignal
          /\ Gt(wt[n].wt1, wt[n].wt2)
          /\ Le(wt[n].wt1, Num(config.oversold_threshold))
          /\ ~signals_df[n].buySignal

\* The direction signalled on the latest row of a Stage-1 call that had
\* candles, a signal frame and a VWMA; "" when there is none.
SignalledDirection(call) ==
    IF call.name # "detect_new_cipherb_signals" THEN ""
    ELSE IF call.df.fetch # "ok" \/ call.df.vwma <= 0 \/ call.signals = <<>> THEN ""
    ELSE IF call.signals[Len(call.signals)].buySignal THEN "BUY"
    ELSE IF call.signals[Len(call.signals)].sellSignal THEN "SELL"
    ELSE ""

(***************************************************************************)
(* C32: in Spec, when Stage 1 sees a signal on the latest bar for a symbol *)
(* that has an active record in the same direction, the store is left      *)
(* unchanged and no Stage-1 signal event is returned.                      *)
(***************************************************************************)
C32_SameDirectionLeavesStore ==
    [][(/\ SignalledDirection(op') # ""
        /\ Monitoring(store, op'.symbol, SignalledDirection(op')) # {})
       => (store' = store /\ ret' = NoSignal)]_vars

(***************************************************************************)
(* C33: in SpecFault, whenever detect_new_cipherb_signals returns          *)
(* (True, data), data['signal_id'] is the id of a MONITORING record of the *)
(* store with the same symbol and direction, also when store calls fail.   *)
(***************************************************************************)
C33_EventHasRecord ==
    (op.name = "detect_new_cipherb_signals" /\ ret.has) =>
        \E r \in store :
            /\ r.signal_id = ret.data.signal_id
            /\ r.symbol = ret.data.symbol
            /\ r.direction = ret.data.direction
            /\ r.status = "MONITORING"

\* The ids of the Stage-1 events of the pass under way (new_signals, line 362).
NewSignalIds == {pass.new_signals[i].signal_id : i \in 1..Len(pass.new_signals)}

\* Stage 2 of a pass reads its list after Stage 1 of the pass has written:
\* every record Stage 1 created in the pass is in the list.
Stage2ListsNewRecords ==
    (op'.name = "get_all_pending_signals" /\ pass.pc = "stage2")
    => \A id \in NewSignalIds :
          \E k \in 1..Len(pending_signals') : pending_signals'[k].signal_id = id

\* The Stage-2 step on a record created in the same pass decides on the
\* frame fetched for that step.
NewRecordCheckedOnStage2Fetch ==
    (op'.name = "check_vwma_cross" /\ op'.pending.signal_id \in NewSignalIds)
    => IF op'.df.fetch = "ok" /\ op'.df.vwma > 0
       THEN IF CrossConfirmed(op'.pending.direction, op'.df.close, op'.df.vwma)
            THEN /\ op'.pending \in store /\ op'.pending \notin store'
                 /\ Len(execution_signals') = Len(execution_signals) + 1
                 /\ execution_signals'[Len(execution_signals')].signal_id
                       = op'.pending.signal_id
            ELSE /\ store' = store
                 /\ execution_signals' = execution_signals
       ELSE /\ op'.pending \notin store'
            /\ execution_signals' = execution_signals

PastHorizon(r, t) ==
    \/ r.created_at < t - config.max_monitoring_hours
    \/ r.expires_at < t

(***************************************************************************)
(* C35: in SpecPass, the Stage-2 step on a pending record that is older    *)
(* than the monitoring horizon (created_at < now - horizon, or expires_at  *)
(* already passed) emits no confirmation event.                            *)
(***************************************************************************)
C35_NoConfirmationPastHorizon ==
    [][(op'.name = "check_vwma_cross" /\ PastHorizon(op'.pending, now))
       => execution_signals' = execution_signals]_vars

(***************************************************************************)
(* SpecOverlap: one pass runs the loop of                                  *)
(* check_vwma_crosses_for_pending_signals on the list it read, while the   *)
(* store calls of other passes (the Stage-1 calls, the delete_signal of    *)
(* another Stage-2 pass, the sweep) commit between its iterations.         *)
(***************************************************************************)
NextOverlap ==
    \/ Stage2Begin
    \/ Stage2Step
    \/ Stage2Return
    \/ NextConc

SpecOverlap == Init /\ [][NextOverlap]_vars

(***************************************************************************)
(* C36: in SpecOverlap, a Stage-2 iteration on a record that another pass  *)
(* has removed from the store since the list was read emits no             *)
(* confirmation event; an iteration emits a confirmation event only when   *)
(* its own delete_signal call removes the record.                          *)
(***************************************************************************)
C36_ConfirmedOnlyByRemover ==
    [][op'.name = "check_vwma_cross"
       => /\ op'.pending \notin store => execution_signals' = execution_signals
          /\ execution_signals' # execution_signals
                => (op'.pending \in store /\ op'.pending \notin store')]_vars

\* The Stage-2 iteration deletes its record: a cross is confirmed, or the
\* data is missing.
Stage2Deletes(call) ==
    \/ call.df.fetch # "ok"
    \/ call.df.vwma <= 0
    \/ CrossConfirmed(call.pending.direction, call.df.close, call.df.vwma)

(***************************************************************************)
(* C37: in SpecOverlap, a Stage-2 iteration that confirms or drops its     *)
(* record removes from the store exactly the records with that signal_id,  *)
(* an iteration that does neither changes nothing, and reading the list    *)
(* and returning change nothing: every other record, of another symbol or  *)
(* inserted after the list was read, is left as it is.                     *)
(***************************************************************************)
C37_Stage2TouchesOwnRecordOnly ==
    [][/\ op'.name = "check_vwma_cross"
          => store' = IF Stage2Deletes(op')
                      THEN {r \in store : r.signal_id # op'.pending.signal_id}
                      ELSE store
       /\ op'.name \in {"get_all_pending_signals",
                         "check_vwma_crosses_for_pending_signals"}
          => store' = store]_vars

\* The iteration on the only record of the list confirmed it, and the
\* store holds a record of the other symbol that was inserted after the
\* list was read.
C37_Witness ==
    /\ op.name = "check_vwma_cross"
    /\ Stage2Deletes(op)
    /\ pending_signals = <<op.pending>>
    /\ Len(execution_signals) = 1
    /\ execution_signals[1].signal_id = op.pending.signal_id
    /\ \E r \in store :
          /\ r.signal_id > op.pending.signal_id
          /\ r.symbol # op.pending.symbol
          /\ store = {r}

(***************************************************************************)
(* SpecRace: cleanup_expired_signals and cancel_opposite_signal as the two *)
(* statements each of them executes.  The SELECT runs outside any          *)
(* transaction (sqlite3 opens one only before the DELETE), so the store    *)
(* calls of other passes can commit between the two statements.  `pass`    *)
(* holds the call under way: what its SELECT returned and its arguments.   *)
(***************************************************************************)
RaceIdle ==
    [pc |-> "idle", cutoff_from |-> 0, count |-> 0, symbol |-> "", direction |-> "",
     existing |-> FALSE]

\* cleanup_expired_signals, lines 203-214: cutoff_time and SELECT COUNT(*)
SweepCount ==
    /\ pass.pc = "idle"
    /\ pass' = [RaceIdle EXCEPT
                   !.pc = "counted",
                   !.cutoff_from = now,
                   !.count = CleanupExpiredSignals(store, now,
                                                   config.max_monitoring_hours).ret]
    /\ op' = [name |-> "select_count"]
    /\ ret' = None
    /\ UNCHANGED <<store, seq, now>>

\* lines 216-226: if count > 0: DELETE, commit; return count
SweepDelete ==
    /\ pass.pc = "counted"
    /\ store' = IF pass.count > 0
                THEN CleanupExpiredSignals(store, pass.cutoff_from,
                                           config.max_monitoring_hours).store
                ELSE store
    /\ ret' = pass.count
    /\ op' = [name |-> "cleanup_expired_signals"]
    /\ pass' = RaceIdle
    /\ UNCHANGED <<seq, now>>

\* cancel_opposite_signal, lines 145-155: SELECT signal_id ...; fetchone()
CancelSelect ==
    /\ pass.pc = "idle"
    /\ \E symbol \in Symbols, direction \in Directions :
          pass' = [RaceIdle EXCEPT
                      !.pc = "selected", !.symbol = symbol, !.direction = direction,
                      !.existing = (Monitoring(store, symbol, Opposite(direction)) # {})]
    /\ op' = [name |-> "select_signal_id"]
    /\ ret' = None
    /\ UNCHANGED <<store, seq, now>>

\* lines 157-168: if existing: DELETE, commit, return True; return False
CancelDelete ==
    /\ pass.pc = "selected"
    /\ store' = IF pass.existing
                THEN store \ Monitoring(store, pass.symbol, Opposite(pass.direction))
                ELSE store
    /\ ret' = pass.existing
    /\ op' = [name |-> "cancel_opposite_signal"]
    /\ pass' = RaceIdle
    /\ UNCHANGED <<seq, now>>

\* store_pending_signal of another pass
RaceStore ==
    /\ seq < MaxId
    /\ \E symbol \in Symbols, direction \in Directions :
          LET stored == StorePendingSignal(store, seq, symbol, direction, 1, now)
          IN /\ store' = stored.store
             /\ seq' = stored.seq
             /\ ret' = stored.ret
    /\ op' = [name |-> "store_pending_signal"]
    /\ UNCHANGED <<now, pass>>

raceOther == <<pending_signals, idx, execution_signals, procs, wt, signals_df,
               config, ema_df, alerts, fetcher, ohlc>>

InitRace ==
    /\ InitStore
    /\ pass = RaceIdle
    /\ procs = [p \in Procs |-> IdleProc]
    /\ wt = <<>>
    /\ signals_df = <<>>
    /\ config = DefaultConfig
    /\ ema_df = <<>>
    /\ alerts = {}
    /\ fetcher = <<>>
    /\ ohlc = <<>>

NextRace ==
    \/ SweepCount /\ UNCHANGED raceOther
    \/ SweepDelete /\ UNCHANGED raceOther
    \/ CancelSelect /\ UNCHANGED raceOther
    \/ CancelDelete /\ UNCHANGED raceOther
    \/ RaceStore /\ UNCHANGED raceOther
    \/ ConcDelete /\ UNCHANGED <<pass, raceOther>>
    \/ ConcTick /\ UNCHANGED <<pass, raceOther>>

SpecRace == InitRace /\ [][NextRace]_vars

(***************************************************************************)
(* C38: in SpecRace, the count cleanup_expired_signals returns is the      *)
(* number of records that call deleted, and cancel_opposite_signal returns *)
(* True only if that call removed a record, whatever other passes commit   *)
(* between the SELECT and the DELETE of the call.                          *)
(***************************************************************************)
C38_ReturnsWhatItRemoved ==
    [][/\ op'.name = "cleanup_expired_signals"
          => ret' = Cardinality(store \ store')
       /\ op'.name = "cancel_opposite_signal"
          => (ret' => store' # store)]_vars

(***************************************************************************)
(* C39: in SpecOverlap, across inserts, deletes, cancels and sweeps, every *)
(* id store_pending_signal returns is greater than every id returned       *)
(* before (so greater than the ids in the store and in any list a Stage-2  *)
(* pass read earlier), no two records share an id, and the delete_signal   *)
(* of a Stage-2 iteration removes nothing but the record it read.          *)
(***************************************************************************)
C39_IdsNeverReused ==
    [][/\ (op'.name = "store_pending_signal" /\ store' # store)
          => /\ ret' > seq
             /\ \A r \in store : r.signal_id < ret'
             /\ \A k \in 1..Len(pending_signals) : pending_signals[k].signal_id < ret'
             /\ \E r \in store' : r.signal_id = ret' /\ store' = store \cup {r}
       /\ \A r, q \in store' : r.signal_id = q.signal_id => r = q
       /\ op'.name = "check_vwma_cross" => (store \ store') \subseteq {op'.pending}]_vars

\* A Stage-2 iteration has issued delete_signal(1) from its list after
\* record 1 was removed and a record of the same symbol and direction was
\* created with id 2, and record 2 is still there.
C39_Witness ==
    /\ op.name = "check_vwma_cross"
    /\ Stage2Deletes(op)
    /\ op.pending.signal_id = 1
    /\ \E r \in store :
          /\ store = {r}
          /\ r.signal_id = 2
          /\ r.symbol = op.pending.symbol
          /\ r.direction = op.pending.direction

====
